---- MODULE Spec2Model ----
(***************************************************************************)
(* A model of kiro.rs: the Cloud Pass sync worker with its shared status   *)
(* and manual-refresh notifier (src/cloud_pass), the Cloud Pass client's   *)
(* response handling, and the admin service with its balance cache and     *)
(* error classifiers (src/admin/service.rs) over the token manager.        *)
(*                                                                         *)
(* Option<T> values are sets with at most one element: None is {} and      *)
(* Some(x) is {x}.  Result values are records [ok, val, err].  Error texts *)
(* are ASCII strings standing for the messages of the source; the map      *)
(* Keywords gives the substrings each message contains that the source     *)
(* tests with str::contains.                                               *)
(***************************************************************************)
EXTENDS Integers, Sequences, FiniteSets, TLC

VARIABLES
    \* ---- Cloud Pass worker (src/cloud_pass/worker.rs, state.rs) ----
    pc,         \* the await at which the worker task is suspended
    status,     \* CloudPassStatusInner
    permit,     \* the stored permit of refresh_notify (tokio Notify)
    timer,      \* seconds the worker has spent in the current select!
    reassign,   \* config.reassign
    creds,      \* the ResolvedCredentials handed to inject_credentials
    pool,       \* the token manager's credentials: set of [id, refresh_token]
    next_id,    \* the id the token manager assigns next
    \* history of the current iteration (cleared when the worker starts to
    \* wait), for stating the properties
    calls,      \* the calls the worker made since the iteration began
    resp1,      \* Option: the first get_credentials result of the iteration
    resp2,      \* Option: the second (re-fetch) result of the iteration
                \* (of the credentials, the kicked flag and the refresh token)
    add_res,    \* Option: the Result of add_credential in this iteration
    iterations, \* history: the do_refresh calls that have returned
    outcome,    \* "none" | "ok" | "err": what do_refresh returned
    hb_res,     \* Option: the Result of the latest heartbeat, None while in flight
    pending,    \* trigger_refresh calls made since the last select! ended
    woke,       \* how the select! before this iteration ended: [by, triggers]
    \* ---- Admin service balance cache (src/admin/service.rs) ----
    clock,          \* wall clock, in ticks of 1/TicksPerSec second
    balance_cache,  \* id -> Option<CachedBalance [cached_at, data]>
    cache_path,     \* Option: the path of kiro_balance_cache.json
    cache_file,     \* kiro_balance_cache.json: [state, map], map by string key
    call,           \* caller -> [pc, id] of its get_balance in flight
    \* history, for stating the properties
    stored,         \* id -> Option [clock, data]: the latest upsert for id
    prev_ok,        \* id -> Option [clock, data]: the latest successful get_balance(id)
    last,           \* Option [id, hit, res]: the latest get_balance return
    restarts,       \* how often the process was restarted
    \* ---- Token manager (MultiTokenManager, from the specification) ----
    entries,        \* the pool: set of [id, refresh_token, priority, disabled]
    current_id,     \* the id handed to client traffic, 0 when there is none
    lb_mode,        \* the load-balancing mode
    id_counter,     \* the id assigned last
    \* ---- Admin service calls (src/admin/service.rs) ----
    acall,          \* admin thread -> its set_disabled call in flight
    ret,            \* Option [op, res, delegated, switched]: the latest
                    \* return of an admin call other than get_balance,
                    \* whether it went to the token manager, and how its
                    \* switch_to_next ended ("no" when it made none)
    \* ---- Error classification (src/admin/service.rs) ----
    error_msg,      \* the looked-for substrings an error message contains
    classified,     \* Option [op, kind]: the kind an operation made of it
    \* ---- Cloud Pass response (src/cloud_pass/model.rs) ----
    response,       \* Option CloudPassResponse
    resolved,       \* Option ResolvedCredentials: what resolve() made of it
    \* ---- Event stream decoder (src/kiro/parser/decoder.rs) ----
    input,          \* the byte stream the decoder is given
    fed,            \* how many bytes of it were fed
    buffer,         \* EventStreamDecoder.buffer
    state,          \* EventStreamDecoder.state
    frames_decoded, \* EventStreamDecoder.frames_decoded
    error_count,    \* EventStreamDecoder.error_count
    yielded,        \* what the latest decode() / DecodeIter::next() returned
    errors_yielded, \* how many of these calls returned an error
    \* ---- Balance payload (src/admin/service.rs, fetch_balance) ----
    probe,          \* Option: what get_usage_limits_for returned
    payload,        \* Option: what fetch_balance made of it
    \* ---- AES key recovery (src/cloud_pass/client.rs) ----
    block,          \* the RSA block c^e mod n, as key_len bytes
    recovered,      \* Option: what the client made of it, [ok, val, err, aes]
    \* ---- token manager: concurrent callers of current() ----
    coll_lock,      \* Option: the caller that holds the collection lock
    gates,          \* credential id -> Option: the caller that holds its gate
    tokens,         \* credential id -> access token, 0 when expired
    caller_pc,      \* caller -> where it is in current()
    caller_id,      \* caller -> the credential it is served from
    returned,       \* caller -> Option: what current() returned
    refresh_calls,  \* credential id -> outbound refresh calls so far
    \* ---- token manager: failure accounting and rotation; the admin listing ----
    failure_count,  \* credential id -> refresh failures in a row
    selections,     \* the current id and the ids the switch_to_next calls in a row selected
    listing,        \* Option: what get_all_credentials returned of the pool as it is
    \* ---- Admin service: the balance cache mutex (src/admin/service.rs) ----
    cache_mutex,    \* Option: the caller that holds balance_cache.lock()
    gb_pc,          \* caller -> where it is in get_balance
    gb_id,          \* caller -> the id it asks the balance of
    gb_val,         \* caller -> the balance its probe fetched
    gb_snap,        \* caller -> the map it serialized for the file
    mem_cache,      \* id -> the balance balance_cache has for it, 0: none
    disk_cache,     \* id -> the balance the cache file has for it, 0: none
    fetches,        \* probes that returned a balance so far
    write_failed,   \* history: a write of the cache file failed
    path_set        \* whether cache_path is Some

wvars == <<pc, status, permit, timer, reassign, creds, pool, next_id,
           calls, resp1, resp2, add_res, outcome, iterations, hb_res, pending, woke>>

bvars == <<clock, balance_cache, cache_path, cache_file, call, stored,
           prev_ok, last, restarts>>

tvars == <<entries, current_id, lb_mode, id_counter>>

avars == <<acall, ret>>

cvars == <<error_msg, classified>>

rvars == <<response, resolved>>

dvars == <<input, fed, buffer, state, frames_decoded, error_count, yielded,
           errors_yielded>>

uvars == <<probe, payload>>

kvars == <<block, recovered>>

fvars == <<coll_lock, gates, tokens, caller_pc, caller_id, returned, refresh_calls>>

pvars == <<failure_count, selections, listing>>

lvars == <<cache_mutex, gb_pc, gb_id, gb_val, gb_snap, mem_cache, disk_cache,
           fetches, write_failed, path_set>>

vars == <<wvars, bvars, tvars, avars, cvars, rvars, dvars, uvars, kvars,
          fvars, pvars, lvars>>

\* what each part of the model leaves alone
beside_worker == <<bvars, tvars, avars, cvars, rvars, dvars, uvars, kvars,
                   fvars, pvars, lvars>>
beside_balance == <<wvars, tvars, avars, cvars, rvars, dvars, uvars, kvars,
                    fvars, pvars, lvars>>
beside_pool == <<wvars, cvars, rvars, dvars, uvars, kvars, fvars, pvars,
                 lvars>>
beside_admin == <<wvars, bvars, cvars, rvars, dvars, uvars, kvars, fvars,
                  pvars, lvars>>

\* ------------------------------------------------------------------------
\* Bounds
\* ------------------------------------------------------------------------
\* refresh attempts the worker makes before the model stops it
MaxAttempts == 3
\* config.refresh_interval, in seconds
RefreshInterval == 2
\* trigger_refresh calls counted between two waits
MaxPending == 2
\* the wall clock stops here, in ticks
MaxClock == 903
\* clock ticks per second: Utc::now().timestamp() truncates to seconds
TicksPerSec == 2
\* restarts of the process
MaxRestarts == 1
\* the wall clock of the restarted process stops here, in ticks
MaxCacheClock == 602
\* credentials ever added to the pool the admin service works on
MaxIds == 2
\* the most looked-for substrings one error message contains
MaxKeywords == 2
\* the most garbage bytes in front of the frame
MaxGarbage == 11
\* the length of the frame, in bytes
FrameLen == 2
\* decode() is not called any more once error_count is this
MaxErrorCount == 12
\* the largest amount, of either sign, in an upstream usage record
MaxUsage == 4
\* garbage bytes after the frame
MaxTrailing == 1
\* bytes in the buffer a decode_iter pass starts with
MaxBuffer == 4
\* upstream probes that return a balance
MaxFetches == 3
\* credentials in the pool that is rotated
PoolSize == 3
\* the configured failure threshold
FailureThreshold == 2
\* switch_to_next calls in a row
MaxSwitches == 4
\* concurrent callers of current()
MaxCallers == 2
\* the length of the RSA modulus in bytes (256 for the embedded key)
KeyLen == 6
\* the length of an AES key in bytes (32 for AES-256)
AesKeyLen == 2
\* the shortest block the unpadding looks at (11 in the source)
MinBlockLen == 3

\* ------------------------------------------------------------------------
\* Option and Result
\* ------------------------------------------------------------------------
None == {}
Some(x) == {x}
IsSome(o) == o # {}
Unwrap(o) == CHOOSE x \in o : TRUE
Ok(v) == [ok |-> TRUE, val |-> v, err |-> ""]
Err(e) == [ok |-> FALSE, val |-> {}, err |-> e]

\* ------------------------------------------------------------------------
\* Error texts
\* ------------------------------------------------------------------------
\* reqwest send/json error of a Cloud Pass RPC
E_Transport == "error sending request"
\* client.rs:128, success = false
E_GetFailed == "get-credentials failed: server message"
\* worker.rs:85
E_StillKicked == "still kicked after reassign, check the license code"
\* worker.rs:89
E_Kicked == "device kicked, enable reassign to re-claim"
\* worker.rs:110
E_NoRefreshToken == "server returned no refreshToken"
\* token manager, duplicate refresh token: "... (refreshToken chongfu)"
E_Duplicate == "credential exists (refreshToken chongfu)"
\* token manager, the probing refresh failed
E_AddProbe == "token refresh failed"
\* token manager, get_usage_limits_for failed
E_Usage == "usage limits request timed out"

\* token manager, no credential with the id asked for
E_NotFound == "credential does not exist"
\* token manager, nothing selectable
E_NoneAvailable == "no credentials available"
\* token manager, the configuration could not be written
E_Persist == "failed to write the configuration"

\* the substrings of a message that the source looks for; the Chinese
\* substrings of the source are written here as
\*   "does not exist"                the not-found marker
\*   "credential expired or invalid", "permission denied", "rate limited",
\*   "server error", "Token refresh failed", "temporarily unavailable"
\*                                   the HTTP response errors of a refresh
\*   "missing refreshToken", "refreshToken empty", "refreshToken truncated",
\*   "credential exists", "refreshToken chongfu"
\*                                   the credential validation errors
\*   "chongfu"                       the worker's duplicate marker, a part
\*                                   of "refreshToken chongfu"
Keywords(msg) ==
    CASE msg = E_Duplicate -> {"chongfu", "refreshToken chongfu", "credential exists"}
      [] msg = E_AddProbe  -> {"Token refresh failed"}
      [] msg = E_Usage     -> {"timed out"}
      [] msg = E_NotFound  -> {"does not exist"}
      [] OTHER             -> {}

contains(msg, kw) == kw \in Keywords(msg)

\* ------------------------------------------------------------------------
\* Cloud Pass client results (src/cloud_pass/client.rs)
\* ------------------------------------------------------------------------
Tokens == {"rA", "rB"}
LicenseDates == {"2027-01-01"}

ResolvedCredentials ==
    [kicked : BOOLEAN,
     refresh_token : {None} \cup {Some(t) : t \in Tokens},
     license_expires_at : {None} \cup {Some(d) : d \in LicenseDates}]

NoCreds == [kicked |-> FALSE, refresh_token |-> None, license_expires_at |-> None]

\* the server's answer to heartbeat / claim-active
HttpOutcomes == {"2xx", "non2xx", "send_error"}

\* heartbeat: only a send error is an Err; a non-2xx status is logged
heartbeat(http) == IF http = "send_error" THEN Err(E_Transport) ELSE Ok({})

\* claim_active: only a send error is an Err; a non-2xx status is logged
claim_active(http) == IF http = "send_error" THEN Err(E_Transport) ELSE Ok({})

\* ------------------------------------------------------------------------
\* Cloud Pass response (src/cloud_pass/model.rs)
\* ------------------------------------------------------------------------
\* the credential fields, which CloudPassResponse, CloudPassData and
\* CloudPassCredentials all have as Option<String>
Fields ==
    {"access_token", "refresh_token", "client_id", "client_secret",
     "expires_at", "region", "profile_arn"}

\* an object none of whose credential fields is present
NoFields == [f \in Fields |-> None]

\* CloudPassResponse::resolve. A CloudPassResponse is
\* [success, message, fields, kicked, license_expires_at, credentials, data],
\* fields being its own credential fields, credentials an
\* Option<CloudPassCredentials> (the fields) and data an Option<CloudPassData>
\* [fields, kicked, license_expires_at, credentials].
resolve(resp) ==
    LET nested_creds ==
            IF IsSome(resp.credentials) THEN resp.credentials
            ELSE IF IsSome(resp.data) THEN Unwrap(resp.data).credentials
            ELSE None
        data == resp.data
        or_else(a, b) == IF IsSome(a) THEN a ELSE b
        field(f) ==
            or_else(or_else(IF IsSome(nested_creds) THEN Unwrap(nested_creds)[f]
                            ELSE None,
                            IF IsSome(data) THEN Unwrap(data).fields[f] ELSE None),
                    resp.fields[f])
        kicked ==
            or_else(IF IsSome(data) THEN Unwrap(data).kicked ELSE None, resp.kicked)
    IN  [access_token |-> field("access_token"),
         refresh_token |-> field("refresh_token"),
         client_id |-> field("client_id"),
         client_secret |-> field("client_secret"),
         expires_at |-> field("expires_at"),
         region |-> field("region"),
         profile_arn |-> field("profile_arn"),
         kicked |-> IF IsSome(kicked) THEN Unwrap(kicked) ELSE FALSE,
         license_expires_at |->
             or_else(IF IsSome(data) THEN Unwrap(data).license_expires_at ELSE None,
                     resp.license_expires_at)]

\* ------------------------------------------------------------------------
\* Cloud Pass client (src/cloud_pass/client.rs)
\* ------------------------------------------------------------------------
\* client.rs:127, the message of a failure response that has none
UnknownError == "unknown error"

\* client.rs:128, format!("获取凭证失败: {}", msg)
get_failed(m) == "get-credentials failed: " \o m

\* decrypt_response failed (a missing key, iv, tag or data string, a base64,
\* RSA, AES-GCM, UTF-8 or JSON error)
E_Decrypt == "AES-GCM decryption failed"

\* the fields of ResolvedCredentials the worker's decisions depend on
Relevant(r) ==
    [kicked |-> r.kicked,
     refresh_token |-> r.refresh_token,
     license_expires_at |-> r.license_expires_at]

\* the answer to POST /api/get-credentials as the client meets it:
\* [send, encrypted, outer, inner], outer the CloudPassRawResponse read as an
\* unencrypted response and inner what decrypt_response makes of its data
\* (None when it fails)
get_credentials_outer_success(raw) ==
    IF raw.send # "ok" THEN Err(E_Transport)
    ELSE IF raw.encrypted /\ raw.inner = None THEN Err(E_Decrypt)
    ELSE LET resp == IF raw.encrypted THEN Unwrap(raw.inner) ELSE raw.outer
         IN  IF ~raw.outer.success
             THEN Err(get_failed(IF IsSome(raw.outer.message)
                                 THEN Unwrap(raw.outer.message) ELSE UnknownError))
             ELSE Ok(Relevant(resolve(resp)))

\* CloudPassClient::get_credentials
get_credentials(raw) ==
    IF raw.send # "ok" THEN Err(E_Transport)
    ELSE IF raw.encrypted /\ raw.inner = None THEN Err(E_Decrypt)
    ELSE LET resp == IF raw.encrypted THEN Unwrap(raw.inner) ELSE raw.outer
         IN  IF ~resp.success
             THEN Err(get_failed(IF IsSome(resp.message)
                                 THEN Unwrap(resp.message) ELSE UnknownError))
             ELSE Ok(Relevant(resolve(resp)))

\* the server's responses: a failure with or without a message, or a
\* success with the credentials in its top-level fields
ServerMessages == {"server message"}

FailureBody(message) ==
    [success |-> FALSE, message |-> message, fields |-> NoFields, kicked |-> None,
     license_expires_at |-> None, credentials |-> None, data |-> None]

SuccessBody(c) ==
    [success |-> TRUE, message |-> None,
     fields |-> [NoFields EXCEPT !["refresh_token"] = c.refresh_token],
     kicked |-> Some(c.kicked), license_expires_at |-> c.license_expires_at,
     credentials |-> None, data |-> None]

Bodies ==
    {FailureBody(None)} \cup {FailureBody(Some(m)) : m \in ServerMessages}
        \cup {SuccessBody(c) : c \in ResolvedCredentials}

\* the envelope of an encrypted response, its credentials all in data
Envelope ==
    [success |-> TRUE, message |-> None, fields |-> NoFields, kicked |-> None,
     license_expires_at |-> None, credentials |-> None, data |-> None]

RawResponses ==
    {[send |-> "send_error", encrypted |-> FALSE, outer |-> Envelope, inner |-> None]}
        \cup {[send |-> "ok", encrypted |-> FALSE, outer |-> b, inner |-> None] :
                  b \in Bodies}
        \cup {[send |-> "ok", encrypted |-> TRUE, outer |-> Envelope, inner |-> i] :
                  i \in {None} \cup {Some(b) : b \in Bodies}}

\* what get_credentials can return
GetCredentialsResults == {get_credentials(raw) : raw \in RawResponses}

\* what the history keeps of a get_credentials result
Seen(res) ==
    IF res.ok
    THEN Ok([kicked |-> res.val.kicked, refresh_token |-> res.val.refresh_token])
    ELSE res

\* the name under which a get_credentials call is recorded in calls
GetCall(r) == IF r THEN "get_credentials(true)" ELSE "get_credentials(false)"

\* ------------------------------------------------------------------------
\* Token manager (not part of the sources at hand; from the specification)
\* ------------------------------------------------------------------------
\* add(cred): a duplicate refresh token fails; otherwise the upstream is
\* probed and on success the next id is assigned
add_credential(p, nid, token, probe_ok) ==
    IF \E c \in p : c.refresh_token = token THEN Err(E_Duplicate)
    ELSE IF ~probe_ok THEN Err(E_AddProbe)
    ELSE Ok(nid)

pool_after_add(p, nid, token, res) ==
    IF res.ok THEN p \cup {[id |-> nid, refresh_token |-> token]} ELSE p

\* The pool as the admin service sees it: entries with their scheduling
\* fields, the current id and the mode.
Modes == {"priority", "balanced"}

EntryIds(es) == {e.id : e \in es}
EntryOf(es, id) == CHOOSE e \in es : e.id = id

\* a credential is selectable when it is enabled
Selectable(es) == {e \in es : ~e.disabled}

\* the order of scheduling: priority ascending, then id ascending
Before(a, b) == a.priority < b.priority \/ (a.priority = b.priority /\ a.id < b.id)

First(es) == CHOOSE e \in es : \A o \in es : o = e \/ Before(e, o)

next_selectable_lowest(sel, from, mode) ==
    IF sel = {} THEN [res |-> Err(E_NoneAvailable), current_id |-> 0]
    ELSE [res |-> Ok({}), current_id |-> First(sel).id]

\* switch_to_next: in priority mode the enabled credential with the lowest
\* priority value, ties to the lowest id; in balanced mode the enabled one
\* that follows the current one in the ring, wrapping; with nothing
\* selectable the rotation fails and no credential is current
next_selectable(sel, from, mode) ==
    LET after == {e \in sel : IsSome(from) /\ Before(Unwrap(from), e)}
    IN  IF sel = {} THEN [res |-> Err(E_NoneAvailable), current_id |-> 0]
        ELSE IF mode = "priority" \/ after = {}
        THEN [res |-> Ok({}), current_id |-> First(sel).id]
        ELSE [res |-> Ok({}), current_id |-> First(after).id]

switch_to_next(es, cur, mode) ==
    next_selectable(Selectable(es),
                    IF cur \in EntryIds(es) THEN Some(EntryOf(es, cur)) ELSE None,
                    mode)

\* set_disabled(id, disabled): fails for an unknown id, else sets the flag
set_disabled(es, id, disabled) ==
    IF id \notin EntryIds(es) THEN [res |-> Err(E_NotFound), entries |-> es]
    ELSE [res |-> Ok({}),
          entries |-> {IF e.id = id THEN [e EXCEPT !.disabled = disabled] ELSE e :
                          e \in es}]

\* delete(id): fails for an unknown id, else removes the credential and, when
\* it was the current one, advances to the next selectable credential or
\* resets the current id to 0
delete_credential(es, cur, mode, id) ==
    LET rest == {e \in es : e.id # id}
    IN  IF id \notin EntryIds(es)
        THEN [res |-> Err(E_NotFound), entries |-> es, current_id |-> cur]
        ELSE [res |-> Ok({}), entries |-> rest,
              current_id |-> IF id = cur
                             THEN next_selectable(Selectable(rest),
                                      Some(EntryOf(es, id)), mode).current_id
                             ELSE cur]

\* ------------------------------------------------------------------------
\* Cloud Pass status (src/cloud_pass/state.rs)
\* ------------------------------------------------------------------------
\* chrono::Utc::now().to_rfc3339(): the worker's time of day is not part of
\* the model, every stamp reads the same
UtcNow == "now"

\* the status after from_config; server_url, device_id, the masked license
\* code and client_version are constant texts and left out
from_config(r, interval) ==
    [enabled |-> TRUE,
     connected |-> FALSE,
     refresh_interval |-> interval,
     reassign |-> r,
     last_refresh_at |-> None,
     last_refresh_ok |-> FALSE,
     last_refresh_error |-> None,
     refresh_success_count |-> 0,
     refresh_failure_count |-> 0,
     license_expires_at |-> None,
     kicked |-> FALSE,
     injected_credential_id |-> None]

record_success_keeps_error(st, credential_id, license_expires_at, kicked) ==
    [st EXCEPT !.connected = TRUE,
               !.last_refresh_at = Some(UtcNow),
               !.last_refresh_ok = TRUE,
               !.refresh_success_count = @ + 1,
               !.injected_credential_id =
                   IF IsSome(credential_id) THEN credential_id ELSE @,
               !.license_expires_at =
                   IF IsSome(license_expires_at) THEN license_expires_at ELSE @]

record_success_overwrites_id(st, credential_id, license_expires_at, kicked) ==
    [st EXCEPT !.connected = TRUE,
               !.last_refresh_at = Some(UtcNow),
               !.last_refresh_ok = TRUE,
               !.last_refresh_error = None,
               !.refresh_success_count = @ + 1,
               !.kicked = kicked,
               !.injected_credential_id = credential_id,
               !.license_expires_at =
                   IF IsSome(license_expires_at) THEN license_expires_at ELSE @]

record_success(st, credential_id, license_expires_at, kicked) ==
    [st EXCEPT !.connected = TRUE,
               !.last_refresh_at = Some(UtcNow),
               !.last_refresh_ok = TRUE,
               !.last_refresh_error = None,
               !.refresh_success_count = @ + 1,
               !.kicked = kicked,
               !.injected_credential_id =
                   IF IsSome(credential_id) THEN credential_id ELSE @,
               !.license_expires_at =
                   IF IsSome(license_expires_at) THEN license_expires_at ELSE @]

record_failure_disconnects(st, error) ==
    [st EXCEPT !.connected = FALSE,
               !.last_refresh_at = Some(UtcNow),
               !.last_refresh_ok = FALSE,
               !.last_refresh_error = Some(error),
               !.refresh_failure_count = @ + 1]

record_failure(st, error) ==
    [st EXCEPT !.last_refresh_at = Some(UtcNow),
               !.last_refresh_ok = FALSE,
               !.last_refresh_error = Some(error),
               !.refresh_failure_count = @ + 1]

record_kicked(st) == [st EXCEPT !.kicked = TRUE]

\* tokio Notify::notify_waiters: wakes a registered waiter, stores nothing
trigger_refresh_notify_waiters(p, waiting) == IF waiting THEN TRUE ELSE p

\* trigger_refresh: Notify::notify_one wakes the waiter or, when nobody
\* waits, stores the single permit; a permit already stored stays one
trigger_refresh(p, waiting) == TRUE

\* ------------------------------------------------------------------------
\* The worker loop (src/cloud_pass/worker.rs)
\* ------------------------------------------------------------------------
Attempts == status.refresh_success_count + status.refresh_failure_count

interval_backoff == RefreshInterval * (1 + status.refresh_failure_count)

\* let interval = Duration::from_secs(config.refresh_interval)
interval == RefreshInterval

NotWoken == [by |-> "none", triggers |-> 0]

\* how a select! ended: "timeout" when the sleep elapsed, "at_once" when
\* notified() was ready at the first poll, "notified" when it became ready
\* during the wait; and how many trigger_refresh calls the wake-up consumed
Woke(by) ==
    [by |-> IF by = "notified" /\ pc = "hb" THEN "at_once" ELSE by,
     triggers |-> IF by = "timeout" THEN 0 ELSE pending]

\* the top of the loop: do_refresh begins with get_credentials(reassign)
BeginIteration ==
    /\ pc' = "get1"
    /\ calls' = <<GetCall(reassign)>>
    /\ resp1' = None
    /\ resp2' = None
    /\ add_res' = None
    /\ outcome' = "none"
    /\ iterations' = iterations
    /\ creds' = NoCreds
    /\ timer' = 0

\* select! found neither branch ready: the iteration is over and the
\* worker waits
EnterWait ==
    /\ pc' = "wait"
    /\ timer' = 0
    /\ woke' = NotWoken
    /\ calls' = <<>>
    /\ resp1' = None
    /\ resp2' = None
    /\ add_res' = None
    /\ outcome' = "none"
    /\ iterations' = iterations
    /\ creds' = NoCreds

\* the loop's match on the result of do_refresh, then the heartbeat call
AfterRefresh(st, res, cs) ==
    /\ status' = IF res.ok THEN st ELSE record_failure(st, res.err)
    /\ outcome' = IF res.ok THEN "ok" ELSE "err"
    /\ iterations' = iterations + 1
    /\ calls' = Append(cs, "heartbeat")
    /\ hb_res' = None
    /\ pc' = "hb"

\* inject_credentials up to the await of add_credential
inject_credentials(st, c, cs) ==
    IF c.refresh_token = None
    THEN /\ AfterRefresh(st, Err(E_NoRefreshToken), cs)
         /\ creds' = NoCreds
    ELSE /\ status' = st
         /\ creds' = c
         /\ calls' = Append(cs, "add_credential")
         /\ pc' = "add"
         /\ UNCHANGED <<outcome, iterations, hb_res>>

\* the worker leaves its initial 5 s sleep and enters the loop
Start ==
    /\ pc = "init"
    /\ BeginIteration
    /\ UNCHANGED <<status, permit, reassign, pool, next_id, hb_res, pending, woke>>

\* do_refresh from the first get_credentials response to the next await
GetCredentials1(res) ==
    /\ pc = "get1"
    /\ resp1' = Some(Seen(res))
    /\ IF ~res.ok
       THEN AfterRefresh(status, res, calls) /\ creds' = NoCreds
       ELSE IF res.val.kicked
            THEN IF reassign
                 THEN /\ status' = record_kicked(status)
                      /\ calls' = Append(calls, "claim_active")
                      /\ pc' = "claim"
                      /\ UNCHANGED <<creds, outcome, iterations, hb_res>>
                 ELSE /\ AfterRefresh(record_kicked(status), Err(E_Kicked), calls)
                      /\ creds' = NoCreds
            ELSE inject_credentials(status, res.val, calls)
    /\ UNCHANGED <<permit, timer, reassign, pool, next_id, resp2, add_res,
                   pending, woke>>

ClaimActive_refetch_plain(http) ==
    /\ pc = "claim"
    /\ IF ~claim_active(http).ok
       THEN AfterRefresh(status, claim_active(http), calls)
       ELSE /\ calls' = Append(calls, GetCall(FALSE))
            /\ pc' = "get2"
            /\ UNCHANGED <<status, outcome, iterations, hb_res>>
    /\ UNCHANGED <<permit, timer, reassign, creds, pool, next_id, resp1, resp2,
                   add_res, pending, woke>>

\* claim_active returned: on error the iteration fails, else re-fetch
ClaimActive(http) ==
    /\ pc = "claim"
    /\ IF ~claim_active(http).ok
       THEN AfterRefresh(status, claim_active(http), calls)
       ELSE /\ calls' = Append(calls, GetCall(TRUE))
            /\ pc' = "get2"
            /\ UNCHANGED <<status, outcome, iterations, hb_res>>
    /\ UNCHANGED <<permit, timer, reassign, creds, pool, next_id, resp1, resp2,
                   add_res, pending, woke>>

GetCredentials2_ignores_kicked(res) ==
    /\ pc = "get2"
    /\ resp2' = Some(Seen(res))
    /\ IF ~res.ok
       THEN AfterRefresh(status, res, calls) /\ creds' = NoCreds
       ELSE inject_credentials(status, res.val, calls)
    /\ UNCHANGED <<permit, timer, reassign, pool, next_id, resp1, add_res,
                   pending, woke>>

\* the re-fetch returned: still kicked fails the iteration, else inject
GetCredentials2(res) ==
    /\ pc = "get2"
    /\ resp2' = Some(Seen(res))
    /\ IF ~res.ok
       THEN AfterRefresh(status, res, calls) /\ creds' = NoCreds
       ELSE IF res.val.kicked
            THEN AfterRefresh(status, Err(E_StillKicked), calls) /\ creds' = NoCreds
            ELSE inject_credentials(status, res.val, calls)
    /\ UNCHANGED <<permit, timer, reassign, pool, next_id, resp1, add_res,
                   pending, woke>>

\* add_credential returned: inject_credentials from the match to its end,
\* or to the await of the pre-warm usage probe
AddCredential(probe_ok) ==
    LET token == Unwrap(creds.refresh_token)
        res == add_credential(pool, next_id, token, probe_ok)
    IN  /\ pc = "add"
        /\ add_res' = Some(res)
        /\ pool' = pool_after_add(pool, next_id, token, res)
        /\ next_id' = IF res.ok THEN next_id + 1 ELSE next_id
        /\ IF res.ok
           THEN /\ status' = record_success(status, Some(res.val),
                                            creds.license_expires_at, creds.kicked)
                /\ calls' = Append(calls, "get_usage_limits_for")
                /\ pc' = "usage"
                /\ UNCHANGED <<outcome, iterations, hb_res>>
           ELSE IF contains(res.err, "chongfu") \/ contains(res.err, "duplicate")
                THEN AfterRefresh(record_success(status, None,
                                                 creds.license_expires_at, creds.kicked),
                                  Ok({}), calls)
                ELSE AfterRefresh(status, res, calls)
        /\ UNCHANGED <<permit, timer, reassign, creds, resp1, resp2, pending, woke>>

UsageLimits_counts_failure(usage_ok) ==
    /\ pc = "usage"
    /\ AfterRefresh(IF usage_ok THEN status ELSE record_failure(status, E_Usage),
                    Ok({}), calls)
    /\ UNCHANGED <<permit, timer, reassign, creds, pool, next_id, resp1, resp2,
                   add_res, pending, woke>>

\* get_usage_limits_for returned: a failure is logged, do_refresh is Ok
UsageLimits(usage_ok) ==
    /\ pc = "usage"
    /\ AfterRefresh(status, Ok({}), calls)
    /\ UNCHANGED <<permit, timer, reassign, creds, pool, next_id, resp1, resp2,
                   add_res, pending, woke>>

Heartbeat_records_failure(http) ==
    /\ pc = "hb"
    /\ hb_res' = Some(heartbeat(http))
    /\ status' = IF heartbeat(http).ok THEN status
                 ELSE record_failure(status, heartbeat(http).err)
    /\ IF permit /\ Attempts < MaxAttempts
       THEN /\ permit' = FALSE
            /\ woke' = Woke("notified")
            /\ pending' = 0
            /\ BeginIteration
       ELSE /\ EnterWait
            /\ UNCHANGED <<permit, pending>>
    /\ UNCHANGED <<reassign, pool, next_id>>

Heartbeat_stops_on_error(http) ==
    /\ pc = "hb"
    /\ hb_res' = Some(heartbeat(http))
    /\ IF ~heartbeat(http).ok
       THEN /\ pc' = "stopped"
            /\ UNCHANGED <<permit, woke, pending, calls, resp1, resp2, add_res,
                           outcome, iterations, creds, timer>>
       ELSE IF permit /\ Attempts < MaxAttempts
            THEN /\ permit' = FALSE
                 /\ woke' = Woke("notified")
                 /\ pending' = 0
                 /\ BeginIteration
            ELSE /\ EnterWait
                 /\ UNCHANGED <<permit, pending>>
    /\ UNCHANGED <<status, reassign, pool, next_id>>

\* heartbeat returned: a failure is logged; then the first poll of select!,
\* which completes at once when the notifier holds a permit (the model
\* lets the worker start no more than MaxAttempts iterations)
Heartbeat(http) ==
    /\ pc = "hb"
    /\ hb_res' = Some(heartbeat(http))
    /\ IF permit /\ Attempts < MaxAttempts
       THEN /\ permit' = FALSE
            /\ woke' = Woke("notified")
            /\ pending' = 0
            /\ BeginIteration
       ELSE /\ EnterWait
            /\ UNCHANGED <<permit, pending>>
    /\ UNCHANGED <<status, reassign, pool, next_id>>

\* a second passes while the worker waits in select!
Tick ==
    /\ pc = "wait"
    /\ timer < interval
    /\ timer' = timer + 1
    /\ UNCHANGED <<pc, status, permit, reassign, creds, pool, next_id, calls,
                   resp1, resp2, add_res, outcome, iterations, hb_res, pending, woke>>

\* select!: the sleep(interval) branch completes
WakeTimeout ==
    /\ pc = "wait"
    /\ timer >= interval
    /\ Attempts < MaxAttempts
    /\ woke' = Woke("timeout")
    /\ pending' = 0
    /\ BeginIteration
    /\ UNCHANGED <<status, permit, reassign, pool, next_id, hb_res>>

\* select!: the notified() branch completes, consuming the permit
WakeNotified ==
    /\ pc = "wait"
    /\ permit
    /\ Attempts < MaxAttempts
    /\ permit' = FALSE
    /\ woke' = Woke("notified")
    /\ pending' = 0
    /\ BeginIteration
    /\ UNCHANGED <<status, reassign, pool, next_id, hb_res>>

\* an admin request calls state.trigger_refresh()
TriggerRefresh ==
    /\ pending < MaxPending
    /\ permit' = trigger_refresh(permit, pc = "wait")
    /\ pending' = pending + 1
    /\ UNCHANGED <<pc, status, timer, reassign, creds, pool, next_id, calls,
                   resp1, resp2, add_res, outcome, iterations, hb_res, woke>>

WorkerInit ==
    /\ pc = "init"
    /\ reassign \in BOOLEAN
    /\ status = from_config(reassign, RefreshInterval)
    /\ permit = FALSE
    /\ timer = 0
    /\ creds = NoCreds
    /\ pool = {}
    /\ next_id = 1
    /\ calls = <<>>
    /\ resp1 = None
    /\ resp2 = None
    /\ add_res = None
    /\ outcome = "none"
    /\ iterations = 0
    /\ hb_res = None
    /\ pending = 0
    /\ woke = NotWoken

WorkerStep ==
    \/ Start
    \/ \E res \in GetCredentialsResults : GetCredentials1(res)
    \/ \E http \in HttpOutcomes : ClaimActive(http)
    \/ \E res \in GetCredentialsResults : GetCredentials2(res)
    \/ \E probe_ok \in BOOLEAN : AddCredential(probe_ok)
    \/ \E usage_ok \in BOOLEAN : UsageLimits(usage_ok)
    \/ \E http \in HttpOutcomes : Heartbeat(http)
    \/ WakeTimeout
    \/ WakeNotified

\* ------------------------------------------------------------------------
\* Admin service: error classification (src/admin/service.rs)
\* ------------------------------------------------------------------------
\* The classifiers look at a message only through str::contains, so they are
\* given the set of the looked-for substrings the message contains, and
\* return the kind of AdminServiceError they build.
NotFoundKeywords == {"does not exist"}

HttpKeywords ==
    {"credential expired or invalid", "permission denied", "rate limited",
     "server error", "Token refresh failed", "temporarily unavailable"}

NetworkKeywords == {"error trying to connect", "connection", "timeout", "timed out"}

InvalidCredentialKeywords ==
    {"missing refreshToken", "refreshToken empty", "refreshToken truncated",
     "credential exists", "refreshToken chongfu",
     "credential expired or invalid", "permission denied", "rate limited"}

\* classify_error: set_disabled, set_priority, reset_and_enable
classify_error(kws) ==
    IF "does not exist" \in kws THEN "NotFound" ELSE "InternalError"

classify_balance_error_upstream_first(kws) ==
    LET is_upstream_error ==
            \/ "credential expired or invalid" \in kws
            \/ "permission denied" \in kws
            \/ "rate limited" \in kws
            \/ "server error" \in kws
            \/ "Token refresh failed" \in kws
            \/ "temporarily unavailable" \in kws
            \/ "error trying to connect" \in kws
            \/ "connection" \in kws
            \/ "timeout" \in kws
            \/ "timed out" \in kws
    IN  IF is_upstream_error THEN "UpstreamError"
        ELSE IF "does not exist" \in kws THEN "NotFound"
        ELSE "InternalError"

\* classify_balance_error: get_balance
classify_balance_error(kws) ==
    LET is_upstream_error ==
            \/ "credential expired or invalid" \in kws
            \/ "permission denied" \in kws
            \/ "rate limited" \in kws
            \/ "server error" \in kws
            \/ "Token refresh failed" \in kws
            \/ "temporarily unavailable" \in kws
            \/ "error trying to connect" \in kws
            \/ "connection" \in kws
            \/ "timeout" \in kws
            \/ "timed out" \in kws
    IN  IF "does not exist" \in kws THEN "NotFound"
        ELSE IF is_upstream_error THEN "UpstreamError"
        ELSE "InternalError"

classify_add_error_no_duplicate(kws) ==
    LET is_invalid_credential ==
            \/ "missing refreshToken" \in kws
            \/ "refreshToken empty" \in kws
            \/ "refreshToken truncated" \in kws
            \/ "credential expired or invalid" \in kws
            \/ "permission denied" \in kws
            \/ "rate limited" \in kws
    IN  IF is_invalid_credential THEN "InvalidCredential"
        ELSE IF \/ "error trying to connect" \in kws
                \/ "connection" \in kws
                \/ "timeout" \in kws
        THEN "UpstreamError"
        ELSE "InternalError"

\* classify_add_error: add_credential
classify_add_error(kws) ==
    LET is_invalid_credential ==
            \/ "missing refreshToken" \in kws
            \/ "refreshToken empty" \in kws
            \/ "refreshToken truncated" \in kws
            \/ "credential exists" \in kws
            \/ "refreshToken chongfu" \in kws
            \/ "credential expired or invalid" \in kws
            \/ "permission denied" \in kws
            \/ "rate limited" \in kws
    IN  IF is_invalid_credential THEN "InvalidCredential"
        ELSE IF \/ "error trying to connect" \in kws
                \/ "connection" \in kws
                \/ "timeout" \in kws
        THEN "UpstreamError"
        ELSE "InternalError"

\* classify_delete_error: delete_credential
classify_delete_error(kws) ==
    IF "does not exist" \in kws THEN "NotFound" ELSE "InternalError"

\* an AdminServiceError of a kind, with the message it carries
AdminErr(kind, msg) == [ok |-> FALSE, val |-> {}, err |-> msg, kind |-> kind]

\* ------------------------------------------------------------------------
\* Admin service: get_balance and the balance cache (src/admin/service.rs)
\* ------------------------------------------------------------------------
BALANCE_CACHE_TTL_SECS == 300

Ids == {7, 8}
Callers == {1, 2}

\* the clock advances by about half a TTL, a tick less or a tick more, so
\* that entries are looked up just below, at and just above the TTL
TimeJumps == {299, 300, 301}

\* upstream usage records: [current_usage, usage_limit]
Usages == {[current_usage |-> 50, usage_limit |-> 200],
           [current_usage |-> 250, usage_limit |-> 200]}

Max(a, b) == IF a >= b THEN a ELSE b
Min(a, b) == IF a <= b THEN a ELSE b

\* Utc::now().timestamp(): whole seconds
timestamp(t) == t \div TicksPerSec

\* the BalanceResponse fetch_balance builds from a usage record
BalanceResponse(id, usage) ==
    [id |-> id,
     current_usage |-> usage.current_usage,
     usage_limit |-> usage.usage_limit,
     remaining |-> Max(usage.usage_limit - usage.current_usage, 0),
     usage_percentage |->
         IF usage.usage_limit > 0
         THEN Min((usage.current_usage * 100) \div usage.usage_limit, 100)
         ELSE 0]

\* what get_usage_limits_for(id) can return to fetch_balance
UsageResults == {Err(E_Usage)} \cup {Ok(u) : u \in Usages}

\* fetch_balance: the usage probe's error, classified, or the response
\* built from the usage record
fetch_balance(id, res) ==
    IF res.ok THEN Ok(BalanceResponse(id, res.val))
    ELSE AdminErr(classify_balance_error(Keywords(res.err)), res.err)

is_fresh_inclusive(cached, now) == (now - cached.cached_at) <= BALANCE_CACHE_TTL_SECS

is_fresh_short(cached, now) == (now - cached.cached_at) < BALANCE_CACHE_TTL_SECS - 1

\* the freshness test of get_balance's cache lookup
is_fresh(cached, now) == (now - cached.cached_at) < BALANCE_CACHE_TTL_SECS

\* The cache file is [state, map]: state is "missing" when reading it fails,
\* "malformed" when its content does not parse as a map of entries, and
\* "json" otherwise; map gives the entry found under each key.
FileKeys == {"7", "8", "x7"}

NoEntries == [k \in FileKeys |-> None]
NoFile == [state |-> "missing", map |-> NoEntries]
EmptyCache == [id \in Ids |-> None]

\* u64::to_string
to_string(id) == CASE id = 7 -> "7" [] id = 8 -> "8"

\* str::parse::<u64>().ok()
parse_u64(k) == CASE k = "7" -> Some(7) [] k = "8" -> Some(8) [] OTHER -> None

\* save_balance_cache: the whole map goes to the file under string keys,
\* when there is a path
save_balance_cache(cache) ==
    IF IsSome(cache_path)
    THEN [state |-> "json",
          map |-> [k \in FileKeys |->
                      IF \E id \in Ids : to_string(id) = k
                      THEN cache[CHOOSE id \in Ids : to_string(id) = k]
                      ELSE None]]
    ELSE cache_file

load_balance_cache_from_unfiltered(path, file, now) ==
    IF path = None \/ file.state # "json" THEN EmptyCache
    ELSE [id \in Ids |->
             LET ks == {k \in FileKeys : /\ parse_u64(k) = Some(id)
                                         /\ IsSome(file.map[k])}
             IN  IF ks = {} THEN None ELSE file.map[CHOOSE k \in ks : TRUE]]

load_balance_cache_from_lenient(path, file, now) ==
    IF path = None \/ file.state = "missing" THEN EmptyCache
    ELSE [id \in Ids |->
             LET ks == {k \in FileKeys : /\ parse_u64(k) = Some(id)
                                         /\ IsSome(file.map[k])
                                         /\ is_fresh(Unwrap(file.map[k]), now)}
             IN  IF ks = {} THEN None ELSE file.map[CHOOSE k \in ks : TRUE]]

\* load_balance_cache_from: nothing without a path, a readable file or a
\* parsable content; else the entries with a numeric key that are younger
\* than the TTL
load_balance_cache_from(path, file, now) ==
    IF path = None THEN EmptyCache
    ELSE IF file.state = "missing" THEN EmptyCache
    ELSE IF file.state = "malformed" THEN EmptyCache
    ELSE [id \in Ids |->
             LET ks == {k \in FileKeys : /\ parse_u64(k) = Some(id)
                                         /\ IsSome(file.map[k])
                                         /\ is_fresh(Unwrap(file.map[k]), now)}
             IN  IF ks = {} THEN None ELSE file.map[CHOOSE k \in ks : TRUE]]

Idle == [pc |-> "idle", id |-> 0]

\* get_balance(id) up to its first await: a fresh entry is returned at
\* once, otherwise the upstream probe is started
GetBalance(c, id) ==
    LET now == timestamp(clock)
        cached == balance_cache[id]
    IN  /\ call[c].pc = "idle"
        /\ IF IsSome(cached) /\ is_fresh(Unwrap(cached), now)
           THEN /\ last' = Some([id |-> id, hit |-> TRUE,
                                 res |-> Ok(Unwrap(cached).data)])
                /\ prev_ok' = [prev_ok EXCEPT ![id] =
                                  Some([clock |-> clock, data |-> Unwrap(cached).data])]
                /\ call' = call
           ELSE /\ call' = [call EXCEPT ![c] = [pc |-> "fetch", id |-> id]]
                /\ UNCHANGED <<last, prev_ok>>
        /\ UNCHANGED <<clock, balance_cache, cache_path, cache_file, stored,
                       restarts>>

FetchReturn_evicts_on_error(c, ures) ==
    LET id == call[c].id
        res == fetch_balance(id, ures)
        entry == [cached_at |-> timestamp(clock), data |-> res.val]
        cache2 == [balance_cache EXCEPT ![id] = Some(entry)]
        cache3 == [balance_cache EXCEPT ![id] = None]
    IN  /\ call[c].pc = "fetch"
        /\ call' = [call EXCEPT ![c] = Idle]
        /\ last' = Some([id |-> id, hit |-> FALSE, res |-> res])
        /\ IF res.ok
           THEN /\ balance_cache' = cache2
                /\ cache_file' = save_balance_cache(cache2)
                /\ stored' = [stored EXCEPT ![id] =
                                 Some([clock |-> clock, data |-> res.val])]
                /\ prev_ok' = [prev_ok EXCEPT ![id] =
                                  Some([clock |-> clock, data |-> res.val])]
           ELSE /\ balance_cache' = cache3
                /\ cache_file' = save_balance_cache(cache3)
                /\ UNCHANGED <<stored, prev_ok>>
        /\ UNCHANGED <<clock, cache_path, restarts>>

\* the upstream probe returned: an error is passed on, a balance is
\* upserted under the current time, the map is saved, and it is returned
FetchReturn(c, ures) ==
    LET id == call[c].id
        res == fetch_balance(id, ures)
        entry == [cached_at |-> timestamp(clock), data |-> res.val]
        cache2 == [balance_cache EXCEPT ![id] = Some(entry)]
    IN  /\ call[c].pc = "fetch"
        /\ call' = [call EXCEPT ![c] = Idle]
        /\ last' = Some([id |-> id, hit |-> FALSE, res |-> res])
        /\ IF res.ok
           THEN /\ balance_cache' = cache2
                /\ cache_file' = save_balance_cache(cache2)
                /\ stored' = [stored EXCEPT ![id] =
                                 Some([clock |-> clock, data |-> res.val])]
                /\ prev_ok' = [prev_ok EXCEPT ![id] =
                                  Some([clock |-> clock, data |-> res.val])]
           ELSE UNCHANGED <<balance_cache, cache_file, stored, prev_ok>>
        /\ UNCHANGED <<clock, cache_path, restarts>>

\* the upstream probe returned a balance and std::fs::write fails in
\* save_balance_cache: the balance is upserted and returned, the error is
\* logged; the file is as it was, or partial holds a part of the new content
\* that does not parse (its map: the entries that were on their way)
FetchReturnDiskError(c, ures, partial) ==
    LET id == call[c].id
        res == fetch_balance(id, ures)
        entry == [cached_at |-> timestamp(clock), data |-> res.val]
        cache2 == [balance_cache EXCEPT ![id] = Some(entry)]
    IN  /\ call[c].pc = "fetch"
        /\ res.ok
        /\ IsSome(cache_path)
        /\ call' = [call EXCEPT ![c] = Idle]
        /\ last' = Some([id |-> id, hit |-> FALSE, res |-> res])
        /\ balance_cache' = cache2
        /\ cache_file' = IF partial
                          THEN [state |-> "malformed",
                                map |-> save_balance_cache(cache2).map]
                          ELSE cache_file
        /\ stored' = [stored EXCEPT ![id] =
                         Some([clock |-> clock, data |-> res.val])]
        /\ prev_ok' = [prev_ok EXCEPT ![id] =
                          Some([clock |-> clock, data |-> res.val])]
        /\ UNCHANGED <<clock, cache_path, restarts>>

\* time passes
AdvanceClock(d) ==
    /\ clock + d <= MaxClock
    /\ clock' = clock + d
    /\ UNCHANGED <<balance_cache, cache_path, cache_file, call, stored,
                   prev_ok, last, restarts>>

\* get_usage_limits_for(id) as fetch_balance sees it: an unknown id is an
\* error, a known one is probed upstream
get_usage_limits_for(es, id) ==
    IF id \in EntryIds(es) THEN UsageResults ELSE {Err(E_NotFound)}

\* the threads with a set_disabled call in flight
AdminThreads == {1}

NoCall == [pc |-> "idle"]

\* what an admin call that went to the token manager returns for the
\* manager's result
Returned(op, res, kind) ==
    Some([op |-> op,
          res |-> IF res.ok THEN Ok(res.val) ELSE AdminErr(kind, res.err),
          delegated |-> TRUE,
          switched |-> "no"])

\* AdminService::delete_credential: the token manager deletes, its error is
\* classified; the balance cache is not touched
DeleteCredential(id) ==
    LET r == delete_credential(entries, current_id, lb_mode, id)
    IN  /\ entries' = r.entries
        /\ current_id' = r.current_id
        /\ ret' = Returned("delete_credential", r.res,
                           classify_delete_error(Keywords(r.res.err)))
        /\ UNCHANGED <<lb_mode, id_counter, acall, bvars>>

\* the process is restarted: calls in flight are gone, AdminService::new
\* loads the cache file; the pool is read back from its own file
Restart ==
    /\ restarts < MaxRestarts
    /\ restarts' = restarts + 1
    /\ balance_cache' =
           load_balance_cache_from(cache_path, cache_file, timestamp(clock))
    /\ call' = [c \in Callers |-> Idle]
    /\ stored' = [id \in Ids |-> None]
    /\ prev_ok' = [id \in Ids |-> None]
    /\ last' = None
    /\ ret' = None
    /\ acall' = [a \in AdminThreads |-> NoCall]
    /\ UNCHANGED <<clock, cache_path, cache_file, tvars>>

\* ------------------------------------------------------------------------
\* Admin service: operations on the pool (src/admin/service.rs)
\* ------------------------------------------------------------------------
Priorities == {1, 2}
AdminTokens == {"rA", "rB"}
RequestedModes == {"priority", "balanced", "Priority", "random"}

\* mode validation message of set_load_balancing_mode (service.rs:240)
E_Mode == "mode must be 'priority' or 'balanced'"

\* AdminServiceError::status_code
status_code(kind) ==
    CASE kind = "InvalidCredential" -> 400
      [] kind = "NotFound" -> 404
      [] kind = "UpstreamError" -> 502
      [] OTHER -> 500

\* token manager: set_priority(id, p)
set_priority(es, id, p) ==
    IF id \notin EntryIds(es) THEN [res |-> Err(E_NotFound), entries |-> es]
    ELSE [res |-> Ok({}),
          entries |-> {IF e.id = id THEN [e EXCEPT !.priority = p] ELSE e : e \in es}]

\* token manager: reset_and_enable(id) enables the credential again
reset_and_enable(es, id) ==
    IF id \notin EntryIds(es) THEN [res |-> Err(E_NotFound), entries |-> es]
    ELSE [res |-> Ok({}),
          entries |-> {IF e.id = id THEN [e EXCEPT !.disabled = FALSE] ELSE e :
                          e \in es}]

\* token manager: set_load_balancing_mode(mode) sets the mode and writes the
\* configuration; when the write fails the mode stays
set_load_balancing_mode(now, mode, persist_ok) ==
    IF persist_ok THEN [res |-> Ok({}), lb_mode |-> mode]
    ELSE [res |-> Err(E_Persist), lb_mode |-> now]

\* set_disabled(id, disabled), up to the manager's set_disabled: the current
\* id is read from a snapshot
SetDisabledBegin(a, id, disabled) ==
    /\ acall[a].pc = "idle"
    /\ acall' = [acall EXCEPT ![a] =
                    [pc |-> "set", id |-> id, disabled |-> disabled,
                     current_id |-> current_id]]
    /\ UNCHANGED <<tvars, ret>>

SetDisabledApply_ignores_flag(a) ==
    LET c == acall[a]
        r == set_disabled(entries, c.id, c.disabled)
    IN  /\ c.pc = "set"
        /\ entries' = r.entries
        /\ IF ~r.res.ok
           THEN /\ ret' = Returned("set_disabled", r.res,
                                   classify_error(Keywords(r.res.err)))
                /\ acall' = [acall EXCEPT ![a] = NoCall]
           ELSE IF c.id = c.current_id
           THEN /\ acall' = [acall EXCEPT ![a] =
                                [pc |-> "switch", id |-> c.id, disabled |-> c.disabled,
                                 was_current |-> (current_id = c.id)]]
                /\ ret' = ret
           ELSE /\ ret' = Returned("set_disabled", Ok({}), "")
                /\ acall' = [acall EXCEPT ![a] = NoCall]
        /\ UNCHANGED <<current_id, lb_mode, id_counter>>

\* the manager's set_disabled: its error is classified and returned; else,
\* when the call disables the credential the snapshot had as current,
\* switch_to_next comes next, and otherwise the call returns Ok
SetDisabledApply(a) ==
    LET c == acall[a]
        r == set_disabled(entries, c.id, c.disabled)
    IN  /\ c.pc = "set"
        /\ entries' = r.entries
        /\ IF ~r.res.ok
           THEN /\ ret' = Returned("set_disabled", r.res,
                                   classify_error(Keywords(r.res.err)))
                /\ acall' = [acall EXCEPT ![a] = NoCall]
           ELSE IF c.disabled /\ c.id = c.current_id
           THEN /\ acall' = [acall EXCEPT ![a] =
                                [pc |-> "switch", id |-> c.id, disabled |-> c.disabled,
                                 was_current |-> (current_id = c.id)]]
                /\ ret' = ret
           ELSE /\ ret' = Returned("set_disabled", Ok({}), "")
                /\ acall' = [acall EXCEPT ![a] = NoCall]
        /\ UNCHANGED <<current_id, lb_mode, id_counter>>

\* switch_to_next, its result dropped, and the call returns Ok
SetDisabledSwitch(a) ==
    LET r == switch_to_next(entries, current_id, lb_mode)
    IN  /\ acall[a].pc = "switch"
        /\ current_id' = r.current_id
        /\ ret' = Some([op |-> "set_disabled", res |-> Ok({}), delegated |-> TRUE,
                        switched |-> IF r.res.ok THEN "ok" ELSE "failed"])
        /\ acall' = [acall EXCEPT ![a] = NoCall]
        /\ UNCHANGED <<entries, lb_mode, id_counter>>

\* AdminService::set_priority
SetPriority(id, p) ==
    LET r == set_priority(entries, id, p)
    IN  /\ entries' = r.entries
        /\ ret' = Returned("set_priority", r.res, classify_error(Keywords(r.res.err)))
        /\ UNCHANGED <<current_id, lb_mode, id_counter, acall>>

\* AdminService::reset_and_enable
ResetAndEnable(id) ==
    LET r == reset_and_enable(entries, id)
    IN  /\ entries' = r.entries
        /\ ret' = Returned("reset_and_enable", r.res,
                           classify_error(Keywords(r.res.err)))
        /\ UNCHANGED <<current_id, lb_mode, id_counter, acall>>

\* AdminService::add_credential: the manager adds the credential or fails,
\* and its error is classified
AdminAddCredential(token, priority, probe_ok) ==
    LET r == add_credential(entries, id_counter + 1, token, probe_ok)
    IN  /\ r.ok => id_counter < MaxIds
        /\ entries' = IF r.ok
                      THEN entries \cup {[id |-> r.val, refresh_token |-> token,
                                          priority |-> priority, disabled |-> FALSE]}
                      ELSE entries
        /\ id_counter' = IF r.ok THEN r.val ELSE id_counter
        /\ ret' = Returned("add_credential", r, classify_add_error(Keywords(r.err)))
        /\ UNCHANGED <<current_id, lb_mode, acall>>

SetLoadBalancingMode_internal(mode, persist_ok) ==
    LET r == set_load_balancing_mode(lb_mode, mode, persist_ok)
    IN  IF mode # "priority" /\ mode # "balanced"
        THEN /\ ret' = Some([op |-> "set_load_balancing_mode",
                             res |-> AdminErr("InternalError", E_Mode),
                             delegated |-> FALSE, switched |-> "no"])
             /\ UNCHANGED <<tvars, acall>>
        ELSE /\ lb_mode' = r.lb_mode
             /\ ret' = Some([op |-> "set_load_balancing_mode",
                             res |-> IF r.res.ok THEN Ok([mode |-> mode])
                                     ELSE AdminErr("InternalError", r.res.err),
                             delegated |-> TRUE, switched |-> "no"])
             /\ UNCHANGED <<entries, current_id, id_counter, acall>>

\* AdminService::set_load_balancing_mode: a mode other than "priority" and
\* "balanced" is refused at once; else the manager sets it, and its error
\* is an internal one
SetLoadBalancingMode(mode, persist_ok) ==
    LET r == set_load_balancing_mode(lb_mode, mode, persist_ok)
    IN  IF mode # "priority" /\ mode # "balanced"
        THEN /\ ret' = Some([op |-> "set_load_balancing_mode",
                             res |-> AdminErr("InvalidCredential", E_Mode),
                             delegated |-> FALSE, switched |-> "no"])
             /\ UNCHANGED <<tvars, acall>>
        ELSE /\ lb_mode' = r.lb_mode
             /\ ret' = Some([op |-> "set_load_balancing_mode",
                             res |-> IF r.res.ok THEN Ok([mode |-> mode])
                                     ELSE AdminErr("InternalError", r.res.err),
                             delegated |-> TRUE, switched |-> "no"])
             /\ UNCHANGED <<entries, current_id, id_counter, acall>>

\* client traffic, no credential being current: the manager selects the
\* first selectable one
Select ==
    /\ current_id = 0
    /\ Selectable(entries) # {}
    /\ current_id' = First(Selectable(entries)).id
    /\ UNCHANGED <<entries, lb_mode, id_counter, avars>>

\* client traffic, a refresh of credential id fails for the last time the
\* threshold allows: the manager disables it and, when it is the current
\* one, rotates
RefreshFailure(id) ==
    LET es == set_disabled(entries, id, TRUE).entries
    IN  /\ id \in EntryIds(Selectable(entries))
        /\ entries' = es
        /\ current_id' = IF id = current_id
                         THEN switch_to_next(es, current_id, lb_mode).current_id
                         ELSE current_id
        /\ UNCHANGED <<lb_mode, id_counter, avars>>

\* AdminService::new with no cache file on disk
BalanceInit ==
    /\ clock = 0
    /\ cache_path \in {None, Some("kiro_balance_cache.json")}
    /\ cache_file = NoFile
    /\ balance_cache = load_balance_cache_from(cache_path, cache_file, timestamp(clock))
    /\ call = [c \in Callers |-> Idle]
    /\ stored = [id \in Ids |-> None]
    /\ prev_ok = [id \in Ids |-> None]
    /\ last = None
    /\ restarts = 0

\* ------------------------------------------------------------------------
\* Event stream decoder (src/kiro/parser/decoder.rs)
\* ------------------------------------------------------------------------
\* with_capacity: max_errors
max_errors == 10

\* a byte is the length prefix of a frame of FrameLen bytes, a further byte
\* of a frame, or a byte no frame begins with
Garbage(n) == [i \in 1..n |-> "garbage"]

ValidFrame == <<"length">> \o [i \in 1..(FrameLen - 1) |-> "frame"]

\* FrameParser::parse (not part of the sources at hand): a frame is
\* length-prefixed; a buffer that begins with a whole frame gives the frame
\* and its length, one that begins with a part of a frame gives None, any
\* other an error
FrameParser_parse(buf) ==
    IF buf[1] = "length"
    THEN IF Len(buf) < FrameLen THEN [kind |-> "none", consumed |-> 0]
         ELSE [kind |-> "frame", consumed |-> FrameLen]
    ELSE [kind |-> "err", consumed |-> 0]

advance_all(buf, n) == <<>>

advance(buf, n) == SubSeq(buf, n + 1, Len(buf))

\* try_recover
try_recover(buf) == IF buf # <<>> THEN advance(buf, 1) ELSE buf

\* feed
Feed(n) ==
    /\ fed + n <= Len(input)
    /\ buffer' = buffer \o SubSeq(input, fed + 1, fed + n)
    /\ fed' = fed + n
    /\ state' = IF state = "Recovering" THEN "AwaitingData" ELSE state
    /\ UNCHANGED <<input, frames_decoded, error_count, yielded, errors_yielded>>

\* decode
decode_skips_on_none ==
    IF buffer = <<>>
    THEN /\ yielded' = "none"
         /\ UNCHANGED <<buffer, state, frames_decoded, error_count, errors_yielded>>
    ELSE LET parsed == FrameParser_parse(buffer)
         IN  CASE parsed.kind = "frame" ->
                   /\ buffer' = advance(buffer, parsed.consumed)
                   /\ state' = "AwaitingData"
                   /\ frames_decoded' = frames_decoded + 1
                   /\ error_count' = 0
                   /\ yielded' = "frame"
                   /\ UNCHANGED errors_yielded
               [] parsed.kind = "none" ->
                   /\ state' = "AwaitingData"
                   /\ yielded' = "none"
                   /\ buffer' = try_recover(buffer)
                   /\ UNCHANGED <<frames_decoded, error_count, errors_yielded>>
               [] parsed.kind = "err" ->
                   /\ error_count' = error_count + 1
                   /\ buffer' = IF error_count + 1 >= max_errors THEN buffer
                                ELSE try_recover(buffer)
                   /\ state' = "Recovering"
                   /\ yielded' = "err"
                   /\ errors_yielded' = errors_yielded + 1
                   /\ UNCHANGED frames_decoded

decode ==
    IF buffer = <<>>
    THEN /\ yielded' = "none"
         /\ UNCHANGED <<buffer, state, frames_decoded, error_count, errors_yielded>>
    ELSE LET parsed == FrameParser_parse(buffer)
         IN  CASE parsed.kind = "frame" ->
                   /\ buffer' = advance(buffer, parsed.consumed)
                   /\ state' = "AwaitingData"
                   /\ frames_decoded' = frames_decoded + 1
                   /\ error_count' = 0
                   /\ yielded' = "frame"
                   /\ UNCHANGED errors_yielded
               [] parsed.kind = "none" ->
                   /\ state' = "AwaitingData"
                   /\ yielded' = "none"
                   /\ UNCHANGED <<buffer, frames_decoded, error_count, errors_yielded>>
               [] parsed.kind = "err" ->
                   /\ error_count' = error_count + 1
                   /\ buffer' = IF error_count + 1 >= max_errors THEN buffer
                                ELSE try_recover(buffer)
                   /\ state' = "Recovering"
                   /\ yielded' = "err"
                   /\ errors_yielded' = errors_yielded + 1
                   /\ UNCHANGED frames_decoded

\* a call of decode() by the decoder's user
Decode ==
    /\ error_count < MaxErrorCount
    /\ decode
    /\ UNCHANGED <<input, fed>>

IterNext_without_latch ==
    /\ error_count < MaxErrorCount
    /\ decode
    /\ UNCHANGED <<input, fed>>

\* DecodeIter::next: None in the Recovering state, else what decode()
\* returns, its Ok(None) ending the iteration as well
IterNext ==
    /\ error_count < MaxErrorCount
    /\ IF state = "Recovering"
       THEN /\ yielded' = "stopped"
            /\ UNCHANGED <<buffer, state, frames_decoded, error_count, errors_yielded>>
       ELSE decode
    /\ UNCHANGED <<input, fed>>

\* ------------------------------------------------------------------------
\* AES key recovery (src/cloud_pass/client.rs)
\* ------------------------------------------------------------------------
\* the byte values told apart: 0x00, 0x01, 0xFF and another one
Bytes == {0, 1, 2, 255}

E_Padding == "RSA PKCS#1 v1.5 padding malformed"
E_Separator == "RSA PKCS#1 v1.5 padding lacks the 0x00 separator"
E_KeyLength == "AES key length wrong after RSA decryption"

\* BigUint::to_bytes_be: the big-endian bytes without leading zeros
RECURSIVE to_bytes_be(_)
to_bytes_be(bytes) ==
    IF bytes # <<>> /\ bytes[1] = 0 THEN to_bytes_be(Tail(bytes)) ELSE bytes

\* rsa_public_decrypt: zeros are put back on the left up to key_len
RECURSIVE pad_left(_)
pad_left(m_bytes) ==
    IF Len(m_bytes) < KeyLen THEN pad_left(<<0>> \o m_bytes) ELSE m_bytes

\* rsa_public_decrypt: the index of the first byte from i on that is not 0xFF
RECURSIVE skip_ff(_, _)
skip_ff(m_bytes, i) ==
    IF i <= Len(m_bytes) /\ m_bytes[i] = 255 THEN skip_ff(m_bytes, i + 1) ELSE i

rsa_public_decrypt_keeps_separator(m) ==
    LET m_bytes == pad_left(to_bytes_be(m))
        i == skip_ff(m_bytes, 3)
    IN  IF Len(m_bytes) < MinBlockLen \/ m_bytes[1] # 0 \/ m_bytes[2] # 1
        THEN Err(E_Padding)
        ELSE IF i > Len(m_bytes) \/ m_bytes[i] # 0
        THEN Err(E_Separator)
        ELSE Ok(SubSeq(m_bytes, i, Len(m_bytes)))

\* rsa_public_decrypt from the result m of the modular exponentiation on:
\* the PKCS#1 v1.5 type 1 padding 0x00 0x01 [0xFF...] 0x00 is taken off
\* (indices from 1 here)
rsa_public_decrypt(m) ==
    LET m_bytes == pad_left(to_bytes_be(m))
        i == skip_ff(m_bytes, 3)
    IN  IF Len(m_bytes) < MinBlockLen \/ m_bytes[1] # 0 \/ m_bytes[2] # 1
        THEN Err(E_Padding)
        ELSE IF i > Len(m_bytes) \/ m_bytes[i] # 0
        THEN Err(E_Separator)
        ELSE Ok(SubSeq(m_bytes, i + 1, Len(m_bytes)))

\* decrypt_response from the RSA decryption to the AES decryption: aes
\* tells whether the AES-GCM decryption is reached
recover_aes_key(m) ==
    LET aes_key == rsa_public_decrypt(m)
    IN  IF ~aes_key.ok THEN [ok |-> FALSE, val |-> <<>>, err |-> aes_key.err, aes |-> FALSE]
        ELSE IF Len(aes_key.val) # AesKeyLen
        THEN [ok |-> FALSE, val |-> <<>>, err |-> E_KeyLength, aes |-> FALSE]
        ELSE [ok |-> TRUE, val |-> aes_key.val, err |-> "", aes |-> TRUE]

\* ------------------------------------------------------------------------
\* Token manager: current() and the per-id refresh gate (spec section 4.2,
\* "Concurrent-refresh suppression", and section 5)
\* ------------------------------------------------------------------------
TokenCallers == 1..MaxCallers
GateIds == 1..MaxIds

Expired == 0
TokenOk(t) == [ok |-> TRUE, token |-> t]
TokenErr == [ok |-> FALSE, token |-> Expired]

gate_free_always(g, id) == TRUE

\* the per-id gate is a mutex: free when no caller holds it
gate_free(g, id) == g[id] = None

\* current(): the collection lock is taken to look the credential up
CurrentLock(c, id) ==
    /\ caller_pc[c] = "idle"
    /\ coll_lock = None
    /\ coll_lock' = Some(c)
    /\ caller_pc' = [caller_pc EXCEPT ![c] = "locked"]
    /\ caller_id' = [caller_id EXCEPT ![c] = id]
    /\ UNCHANGED <<gates, tokens, returned, refresh_calls>>

\* current(): a valid token is returned; for an expired one the gate of the
\* id is fetched; either way the collection lock is released
CurrentLookup(c) ==
    /\ caller_pc[c] = "locked"
    /\ coll_lock' = None
    /\ IF tokens[caller_id[c]] # Expired
       THEN /\ returned' = [returned EXCEPT ![c] = Some(TokenOk(tokens[caller_id[c]]))]
            /\ caller_pc' = [caller_pc EXCEPT ![c] = "done"]
       ELSE /\ caller_pc' = [caller_pc EXCEPT ![c] = "await_gate"]
            /\ UNCHANGED returned
    /\ UNCHANGED <<gates, tokens, caller_id, refresh_calls>>

\* current(): the gate is awaited and taken
AwaitGate(c) ==
    /\ caller_pc[c] = "await_gate"
    /\ gate_free(gates, caller_id[c])
    /\ gates' = [gates EXCEPT ![caller_id[c]] = Some(c)]
    /\ caller_pc' = [caller_pc EXCEPT ![c] = "gated"]
    /\ UNCHANGED <<coll_lock, tokens, caller_id, returned, refresh_calls>>

\* current(): under the gate the token is looked at again (a short hold of
\* the collection lock); the result of a refresh that finished meanwhile is
\* returned, otherwise the outbound refresh call is made
StartRefresh(c) ==
    /\ caller_pc[c] = "gated"
    /\ coll_lock = None
    /\ IF tokens[caller_id[c]] # Expired
       THEN /\ returned' = [returned EXCEPT ![c] = Some(TokenOk(tokens[caller_id[c]]))]
            /\ gates' = [gates EXCEPT ![caller_id[c]] = None]
            /\ caller_pc' = [caller_pc EXCEPT ![c] = "done"]
            /\ UNCHANGED refresh_calls
       ELSE /\ refresh_calls' = [refresh_calls EXCEPT ![caller_id[c]] = @ + 1]
            /\ caller_pc' = [caller_pc EXCEPT ![c] = "refreshing"]
            /\ UNCHANGED <<returned, gates>>
    /\ UNCHANGED <<coll_lock, tokens, caller_id>>

\* the outbound refresh call returns: the new token is stored (a short hold
\* of the collection lock) or the error is passed on; the gate is released
FinishRefresh(c, ok) ==
    /\ caller_pc[c] = "refreshing"
    /\ coll_lock = None
    /\ IF ok
       THEN /\ tokens' = [tokens EXCEPT ![caller_id[c]] = refresh_calls[caller_id[c]]]
            /\ returned' = [returned EXCEPT ![c] = Some(TokenOk(refresh_calls[caller_id[c]]))]
       ELSE /\ returned' = [returned EXCEPT ![c] = Some(TokenErr)]
            /\ UNCHANGED tokens
    /\ gates' = [gates EXCEPT ![caller_id[c]] = None]
    /\ caller_pc' = [caller_pc EXCEPT ![c] = "done"]
    /\ UNCHANGED <<coll_lock, caller_id, refresh_calls>>

\* ------------------------------------------------------------------------
\* Token manager: failure handling (spec section 4.2) and the listing of
\* AdminService::get_all_credentials (src/admin/service.rs)
\* ------------------------------------------------------------------------
\* on refresh failure the failure count is incremented; when it reaches the
\* threshold the credential is disabled and, when it is the current one,
\* switch_to_next is invoked
report_refresh_failure(es, fc, cur, mode, id) ==
    LET n == fc[id] + 1
        disabled == set_disabled(es, id, TRUE).entries
    IN  IF n >= FailureThreshold
        THEN [entries |-> disabled,
              failure_count |-> [fc EXCEPT ![id] = n],
              current_id |-> IF id = cur
                             THEN switch_to_next(disabled, cur, mode).current_id
                             ELSE cur]
        ELSE [entries |-> es, failure_count |-> [fc EXCEPT ![id] = n],
              current_id |-> cur]

\* a successful refresh resets the failure count
report_refresh_success(fc, id) == [fc EXCEPT ![id] = 0]

\* snapshot(): the entries in the order of their ids, with their failure
\* counts, and the current id
RECURSIVE InOrder(_)
InOrder(es) ==
    IF es = {} THEN <<>>
    ELSE LET e == CHOOSE x \in es : \A o \in es : x.id <= o.id
         IN  <<e>> \o InOrder(es \ {e})

snapshot(es, fc, cur) ==
    [entries |-> [i \in 1..Cardinality(es) |->
                     [id |-> InOrder(es)[i].id,
                      priority |-> InOrder(es)[i].priority,
                      disabled |-> InOrder(es)[i].disabled,
                      failure_count |-> fc[InOrder(es)[i].id]]],
     current_id |-> cur]

\* Vec::sort_by_key(|c| c.priority): a stable sort, the first of the least
\* priority comes first
RECURSIVE sort_by_priority(_)
sort_by_priority(items) ==
    IF items = <<>> THEN <<>>
    ELSE LET k == CHOOSE i \in 1..Len(items) :
                      /\ \A j \in 1..Len(items) : items[i].priority <= items[j].priority
                      /\ \A j \in 1..(i - 1) : items[j].priority # items[i].priority
         IN  <<items[k]>> \o sort_by_priority(SubSeq(items, 1, k - 1)
                                               \o SubSeq(items, k + 1, Len(items)))

get_all_credentials_first_is_current(snap) ==
    [current_id |-> snap.current_id,
     credentials |-> sort_by_priority(
         [i \in 1..Len(snap.entries) |->
             [id |-> snap.entries[i].id,
              priority |-> snap.entries[i].priority,
              disabled |-> snap.entries[i].disabled,
              failure_count |-> snap.entries[i].failure_count,
              is_current |-> i = 1]])]

\* AdminService::get_all_credentials: the items of the snapshot, is_current
\* set for the entry whose id is the snapshot's current id, sorted by priority
get_all_credentials(snap) ==
    [current_id |-> snap.current_id,
     credentials |-> sort_by_priority(
         [i \in 1..Len(snap.entries) |->
             [id |-> snap.entries[i].id,
              priority |-> snap.entries[i].priority,
              disabled |-> snap.entries[i].disabled,
              failure_count |-> snap.entries[i].failure_count,
              is_current |-> snap.entries[i].id = snap.current_id]])]

PoolIds == 1..PoolSize

\* a refresh of an enabled credential fails
PoolRefreshFails(id) ==
    LET r == report_refresh_failure(entries, failure_count, current_id, lb_mode, id)
    IN  /\ id \in EntryIds(Selectable(entries))
        /\ entries' = r.entries
        /\ failure_count' = r.failure_count
        /\ current_id' = r.current_id
        /\ selections' = <<>>
        /\ listing' = None
        /\ UNCHANGED <<lb_mode, id_counter>>

\* a refresh of an enabled credential succeeds
PoolRefreshSucceeds(id) ==
    /\ id \in EntryIds(Selectable(entries))
    /\ failure_count[id] # 0
    /\ failure_count' = report_refresh_success(failure_count, id)
    /\ selections' = <<>>
    /\ listing' = None
    /\ UNCHANGED <<entries, current_id, lb_mode, id_counter>>

\* reset_and_enable(id) clears the failure count and enables the credential
PoolResetAndEnable(id) ==
    /\ id \in EntryIds(entries)
    /\ EntryOf(entries, id).disabled
    /\ entries' = reset_and_enable(entries, id).entries
    /\ failure_count' = [failure_count EXCEPT ![id] = 0]
    /\ selections' = <<>>
    /\ listing' = None
    /\ UNCHANGED <<current_id, lb_mode, id_counter>>

\* with no current credential, current() selects one
PoolSelect ==
    /\ current_id = 0
    /\ Selectable(entries) # {}
    /\ current_id' = First(Selectable(entries)).id
    /\ selections' = <<>>
    /\ listing' = None
    /\ UNCHANGED <<entries, lb_mode, id_counter, failure_count>>

\* switch_to_next()
PoolSwitchToNext ==
    LET r == switch_to_next(entries, current_id, lb_mode)
    IN  /\ r.res.ok
        /\ Len(selections) <= MaxSwitches
        /\ current_id' = r.current_id
        /\ selections' = IF selections = <<>> THEN <<current_id, r.current_id>>
                          ELSE Append(selections, r.current_id)
        /\ listing' = None
        /\ UNCHANGED <<entries, lb_mode, id_counter, failure_count>>

\* AdminService::get_all_credentials
GetAllCredentials ==
    /\ listing' = Some(get_all_credentials(snapshot(entries, failure_count, current_id)))
    /\ listing' # listing
    /\ UNCHANGED <<tvars, failure_count, selections>>

\* ------------------------------------------------------------------------
\* Admin service: get_balance and save_balance_cache step by step, with the
\* balance cache mutex (src/admin/service.rs)
\* ------------------------------------------------------------------------
LockCallers == 1..MaxCallers
LockIds == 1..MaxIds

\* an empty cache
NoBalances == [id \in LockIds |-> 0]

lock_free_always(m) == TRUE

\* Mutex::lock returns when no other thread holds the mutex
lock_free(m) == m = None

\* get_balance: `let cache = self.balance_cache.lock()` of the first block
LockForLookup(c, id) ==
    /\ gb_pc[c] = "idle"
    /\ lock_free(cache_mutex)
    /\ cache_mutex' = Some(c)
    /\ gb_pc' = [gb_pc EXCEPT ![c] = "lookup"]
    /\ gb_id' = [gb_id EXCEPT ![c] = id]
    /\ UNCHANGED <<gb_val, gb_snap, mem_cache, disk_cache, fetches, write_failed,
                   path_set>>

\* get_balance: the lookup; a fresh entry is returned, otherwise the block
\* ends and fetch_balance is awaited; the guard is dropped either way
Lookup(c, fresh) ==
    /\ gb_pc[c] = "lookup"
    /\ cache_mutex' = None
    /\ gb_pc' = [gb_pc EXCEPT ![c] = IF mem_cache[gb_id[c]] # 0 /\ fresh
                                     THEN "idle" ELSE "fetch"]
    /\ UNCHANGED <<gb_id, gb_val, gb_snap, mem_cache, disk_cache, fetches,
                   write_failed, path_set>>

\* get_balance: fetch_balance(id).await returns, with a balance that is
\* new each time; an error leaves through `?`
FetchDone(c, ok) ==
    /\ gb_pc[c] = "fetch"
    /\ IF ok
       THEN /\ fetches < MaxFetches
            /\ fetches' = fetches + 1
            /\ gb_val' = [gb_val EXCEPT ![c] = fetches + 1]
            /\ gb_pc' = [gb_pc EXCEPT ![c] = "fetched"]
       ELSE /\ gb_pc' = [gb_pc EXCEPT ![c] = "idle"]
            /\ UNCHANGED <<fetches, gb_val>>
    /\ UNCHANGED <<cache_mutex, gb_id, gb_snap, mem_cache, disk_cache,
                   write_failed, path_set>>

\* get_balance: `let mut cache = self.balance_cache.lock()` of the second
\* block
LockForInsert(c) ==
    /\ gb_pc[c] = "fetched"
    /\ lock_free(cache_mutex)
    /\ cache_mutex' = Some(c)
    /\ gb_pc' = [gb_pc EXCEPT ![c] = "insert"]
    /\ UNCHANGED <<gb_id, gb_val, gb_snap, mem_cache, disk_cache, fetches,
                   write_failed, path_set>>

\* get_balance: cache.insert and the end of the block; save_balance_cache
\* is called next
Insert(c) ==
    /\ gb_pc[c] = "insert"
    /\ mem_cache' = [mem_cache EXCEPT ![gb_id[c]] = gb_val[c]]
    /\ cache_mutex' = None
    /\ gb_pc' = [gb_pc EXCEPT ![c] = "save"]
    /\ UNCHANGED <<gb_id, gb_val, gb_snap, disk_cache, fetches, write_failed,
                   path_set>>

\* save_balance_cache: without a path it returns; with one it takes the
\* lock, serializes the map and goes on to write
SaveBegin(c) ==
    /\ gb_pc[c] = "save"
    /\ IF ~path_set
       THEN /\ gb_pc' = [gb_pc EXCEPT ![c] = "idle"]
            /\ UNCHANGED <<cache_mutex, gb_snap>>
       ELSE /\ lock_free(cache_mutex)
            /\ cache_mutex' = Some(c)
            /\ gb_snap' = [gb_snap EXCEPT ![c] = mem_cache]
            /\ gb_pc' = [gb_pc EXCEPT ![c] = "write"]
    /\ UNCHANGED <<gb_id, gb_val, mem_cache, disk_cache, fetches, write_failed,
                   path_set>>

\* save_balance_cache: std::fs::write of the serialized map returns, its
\* error is logged; the guard is dropped when the function ends
WriteDone(c, ok) ==
    /\ gb_pc[c] = "write"
    /\ disk_cache' = IF ok THEN gb_snap[c] ELSE disk_cache
    /\ write_failed' = (write_failed \/ ~ok)
    /\ cache_mutex' = None
    /\ gb_pc' = [gb_pc EXCEPT ![c] = "idle"]
    /\ UNCHANGED <<gb_id, gb_val, gb_snap, mem_cache, fetches, path_set>>

\* ------------------------------------------------------------------------
\* Specifications
\* ------------------------------------------------------------------------
WorkerIdle ==
    /\ pc = "init" /\ reassign = FALSE
    /\ status = from_config(FALSE, RefreshInterval)
    /\ permit = FALSE /\ timer = 0 /\ creds = NoCreds /\ pool = {} /\ next_id = 1
    /\ calls = <<>> /\ resp1 = None /\ resp2 = None /\ add_res = None
    /\ outcome = "none" /\ iterations = 0 /\ hb_res = None /\ pending = 0 /\ woke = NotWoken

BalanceIdle ==
    /\ clock = 0
    /\ balance_cache = EmptyCache
    /\ cache_path = None
    /\ cache_file = NoFile
    /\ call = [c \in Callers |-> Idle]
    /\ stored = [id \in Ids |-> None]
    /\ prev_ok = [id \in Ids |-> None]
    /\ last = None
    /\ restarts = 0

\* an empty pool in priority mode
ManagerIdle ==
    entries = {} /\ current_id = 0 /\ lb_mode = "priority" /\ id_counter = 0

AdminIdle == ret = None /\ acall = [a \in AdminThreads |-> NoCall]

\* no error at hand
ClassifyIdle == error_msg = {} /\ classified = None

\* no response at hand
ResolveIdle == response = None /\ resolved = None

\* a decoder that was given nothing
DecoderIdle ==
    /\ input = <<>> /\ fed = 0 /\ buffer = <<>> /\ state = "AwaitingData"
    /\ frames_decoded = 0 /\ error_count = 0 /\ yielded = "nothing"
    /\ errors_yielded = 0

\* no usage probe made
UsageIdle == probe = None /\ payload = None

\* no encrypted response at hand
KeyIdle == block = <<>> /\ recovered = None

\* no caller of current()
RefreshIdle ==
    /\ coll_lock = None /\ gates = <<>> /\ tokens = <<>> /\ caller_pc = <<>>
    /\ caller_id = <<>> /\ returned = <<>> /\ refresh_calls = <<>>

\* no failure accounting, rotation or listing under way
PoolIdle == failure_count = <<>> /\ selections = <<>> /\ listing = None

\* no get_balance call at its lock operations
LockIdle ==
    /\ cache_mutex = None /\ gb_pc = <<>> /\ gb_id = <<>> /\ mem_cache = <<>>
    /\ disk_cache = <<>> /\ path_set = FALSE
    /\ gb_val = <<>> /\ gb_snap = <<>> /\ fetches = 0 /\ write_failed = FALSE

\* the Cloud Pass worker, with admin requests triggering refreshes
Init ==
    WorkerInit /\ BalanceIdle /\ ManagerIdle /\ AdminIdle /\ ClassifyIdle /\ ResolveIdle
    /\ DecoderIdle
    /\ UsageIdle
    /\ KeyIdle
    /\ RefreshIdle
    /\ PoolIdle
    /\ LockIdle

Next ==
    \/ Start /\ UNCHANGED beside_worker
    \/ (\E res \in GetCredentialsResults : GetCredentials1(res)) /\ UNCHANGED beside_worker
    \/ (\E http \in HttpOutcomes : ClaimActive(http)) /\ UNCHANGED beside_worker
    \/ (\E res \in GetCredentialsResults : GetCredentials2(res)) /\ UNCHANGED beside_worker
    \/ (\E probe_ok \in BOOLEAN : AddCredential(probe_ok)) /\ UNCHANGED beside_worker
    \/ (\E usage_ok \in BOOLEAN : UsageLimits(usage_ok)) /\ UNCHANGED beside_worker
    \/ (\E http \in HttpOutcomes : Heartbeat(http)) /\ UNCHANGED beside_worker
    \/ WakeTimeout /\ UNCHANGED beside_worker
    \/ WakeNotified /\ UNCHANGED beside_worker
    \/ Tick /\ UNCHANGED beside_worker
    \/ TriggerRefresh /\ UNCHANGED beside_worker

Spec == Init /\ [][Next]_vars

\* every RPC returns within its 30 s timeout and the runtime polls a ready
\* task, so each worker step and the passing of time are weakly fair; nothing
\* obliges an admin to trigger a refresh
FairSpec ==
    /\ Spec
    /\ WF_vars(WorkerStep /\ UNCHANGED beside_worker)
    /\ WF_vars(Tick /\ UNCHANGED beside_worker)

\* the admin service's get_balance under concurrent callers
BalanceSpecInit ==
    /\ BalanceInit /\ WorkerIdle /\ ManagerIdle /\ AdminIdle /\ ClassifyIdle
    /\ ResolveIdle
    /\ DecoderIdle
    /\ UsageIdle
    /\ KeyIdle
    /\ RefreshIdle
    /\ PoolIdle
    /\ LockIdle

BalanceNext ==
    \/ (\E c \in Callers, id \in Ids : GetBalance(c, id)) /\ UNCHANGED beside_balance
    \/ (\E c \in Callers, ures \in UsageResults : FetchReturn(c, ures))
           /\ UNCHANGED beside_balance
    \/ (\E d \in TimeJumps : AdvanceClock(d)) /\ UNCHANGED beside_balance

BalanceSpec == BalanceSpecInit /\ [][BalanceNext]_vars

\* the balance cache over the life of the pool and of the process: one admin
\* client asks for balances, credentials are deleted, the process restarts
CacheCallers == {1}

\* the clock advances by a tick less or a tick more than half a TTL
CacheJumps == {299, 301}

\* an entry some other program left in the cache file under a key that is
\* not a number
ForeignEntry ==
    [cached_at |-> 0,
     data |-> BalanceResponse(7, [current_usage |-> 50, usage_limit |-> 200])]

InitialFiles ==
    {NoFile,
     [state |-> "malformed", map |-> NoEntries],
     [state |-> "json", map |-> [NoEntries EXCEPT !["x7"] = Some(ForeignEntry)]]}

InitialEntries ==
    {[id |-> 7, refresh_token |-> "rA", priority |-> 1, disabled |-> FALSE],
     [id |-> 8, refresh_token |-> "rB", priority |-> 1, disabled |-> FALSE]}

CacheSpecInit ==
    /\ clock = 0
    /\ cache_path \in {None, Some("kiro_balance_cache.json")}
    /\ cache_file \in InitialFiles
    /\ cache_path = None => cache_file = NoFile
    /\ balance_cache = load_balance_cache_from(cache_path, cache_file, timestamp(clock))
    /\ call = [c \in Callers |-> Idle]
    /\ stored = [id \in Ids |-> None]
    /\ prev_ok = [id \in Ids |-> None]
    /\ last = None
    /\ restarts = 0
    /\ entries = InitialEntries
    /\ current_id = 7
    /\ lb_mode = "priority"
    /\ id_counter = 8
    /\ AdminIdle
    /\ WorkerIdle
    /\ ClassifyIdle
    /\ ResolveIdle
    /\ DecoderIdle
    /\ UsageIdle
    /\ KeyIdle
    /\ RefreshIdle
    /\ PoolIdle
    /\ LockIdle

CacheNext ==
    \/ (\E c \in CacheCallers, id \in Ids : GetBalance(c, id))
           /\ UNCHANGED beside_balance
    \/ (\E c \in CacheCallers :
           \E ures \in get_usage_limits_for(entries, call[c].id) : FetchReturn(c, ures))
           /\ UNCHANGED beside_balance
    \/ (\E c \in CacheCallers, partial \in BOOLEAN :
           \E ures \in get_usage_limits_for(entries, call[c].id) :
               FetchReturnDiskError(c, ures, partial))
           /\ UNCHANGED beside_balance
    \/ (\E d \in CacheJumps : AdvanceClock(d) /\ clock' <= MaxCacheClock)
           /\ UNCHANGED beside_balance
    \/ (\E id \in Ids : DeleteCredential(id)) /\ UNCHANGED beside_pool
    \/ Restart /\ UNCHANGED beside_pool

CacheSpec == CacheSpecInit /\ [][CacheNext]_vars

\* the admin service over the pool: a set_disabled call goes through its
\* three calls to the manager while other admin requests are served and
\* client traffic selects and fails credentials
AllIds == 1..MaxIds

AdminSpecInit ==
    /\ ManagerIdle /\ AdminIdle /\ BalanceIdle /\ WorkerIdle /\ ClassifyIdle
    /\ ResolveIdle
    /\ DecoderIdle
    /\ UsageIdle
    /\ KeyIdle
    /\ RefreshIdle
    /\ PoolIdle
    /\ LockIdle

AdminNext ==
    \/ (\E a \in AdminThreads, id \in AllIds, disabled \in BOOLEAN :
           SetDisabledBegin(a, id, disabled)) /\ UNCHANGED beside_admin
    \/ (\E a \in AdminThreads : SetDisabledApply(a)) /\ UNCHANGED beside_admin
    \/ (\E a \in AdminThreads : SetDisabledSwitch(a)) /\ UNCHANGED beside_admin
    \/ (\E id \in AllIds, p \in Priorities : SetPriority(id, p))
           /\ UNCHANGED beside_admin
    \/ (\E id \in AllIds : ResetAndEnable(id)) /\ UNCHANGED beside_admin
    \/ (\E token \in AdminTokens, p \in Priorities, probe_ok \in BOOLEAN :
           AdminAddCredential(token, p, probe_ok)) /\ UNCHANGED beside_admin
    \/ (\E id \in AllIds : DeleteCredential(id)) /\ UNCHANGED beside_pool
    \/ (\E mode \in RequestedModes, persist_ok \in BOOLEAN :
           SetLoadBalancingMode(mode, persist_ok)) /\ UNCHANGED beside_admin
    \/ Select /\ UNCHANGED beside_admin
    \/ (\E id \in AllIds : RefreshFailure(id)) /\ UNCHANGED beside_admin

AdminSpec == AdminSpecInit /\ [][AdminNext]_vars

\* the classifiers of the admin service over the error messages: a message
\* is given by the looked-for substrings it contains, none of which contains
\* another
AllKeywords ==
    NotFoundKeywords \cup HttpKeywords \cup NetworkKeywords
        \cup InvalidCredentialKeywords

Messages == {kws \in SUBSET AllKeywords : Cardinality(kws) <= MaxKeywords}

SimpleOps == {"set_disabled", "set_priority", "reset_and_enable"}

\* set_disabled, set_priority, reset_and_enable: map_err(classify_error)
ClassifySimple(op) ==
    /\ classified = None
    /\ classified' = Some([op |-> op, kind |-> classify_error(error_msg)])
    /\ UNCHANGED error_msg

\* fetch_balance: map_err(classify_balance_error)
ClassifyBalance ==
    /\ classified = None
    /\ classified' = Some([op |-> "get_balance", kind |-> classify_balance_error(error_msg)])
    /\ UNCHANGED error_msg

\* add_credential: map_err(classify_add_error)
ClassifyAdd ==
    /\ classified = None
    /\ classified' = Some([op |-> "add_credential", kind |-> classify_add_error(error_msg)])
    /\ UNCHANGED error_msg

\* delete_credential: map_err(classify_delete_error)
ClassifyDelete ==
    /\ classified = None
    /\ classified' =
           Some([op |-> "delete_credential", kind |-> classify_delete_error(error_msg)])
    /\ UNCHANGED error_msg

beside_classify == <<wvars, bvars, tvars, avars, rvars, dvars, uvars, kvars,
                     fvars, pvars, lvars>>

ClassifySpecInit ==
    /\ error_msg \in Messages
    /\ classified = None
    /\ WorkerIdle /\ BalanceIdle /\ ManagerIdle /\ AdminIdle /\ ResolveIdle
    /\ DecoderIdle
    /\ UsageIdle
    /\ KeyIdle
    /\ RefreshIdle
    /\ PoolIdle
    /\ LockIdle

ClassifyNext ==
    \/ (\E op \in SimpleOps : ClassifySimple(op)) /\ UNCHANGED beside_classify
    \/ ClassifyBalance /\ UNCHANGED beside_classify
    \/ ClassifyAdd /\ UNCHANGED beside_classify
    \/ ClassifyDelete /\ UNCHANGED beside_classify

ClassifySpec == ClassifySpecInit /\ [][ClassifyNext]_vars

\* resolve() over the shapes of a response: every value is named after the
\* place of the response it stands at
FieldSets == {{}, {"refresh_token"}, Fields \ {"refresh_token"}, Fields}

\* the credential fields of an object at a place, given the ones present
At(place, present) ==
    [f \in Fields |-> IF f \in present THEN Some(place) ELSE None]

OptionOf(S) == {None} \cup {Some(x) : x \in S}

Responses ==
    [success : {TRUE},
     message : {None},
     fields : {At("top", p) : p \in FieldSets},
     kicked : OptionOf(BOOLEAN),
     license_expires_at : OptionOf({"top"}),
     credentials : OptionOf({At("credentials", p) : p \in FieldSets}),
     data : OptionOf([fields : {At("data", p) : p \in FieldSets},
                      kicked : OptionOf(BOOLEAN),
                      license_expires_at : OptionOf({"data"}),
                      credentials :
                          OptionOf({At("data.credentials", p) : p \in FieldSets})])]

Resolve ==
    /\ IsSome(response)
    /\ resolved = None
    /\ resolved' = Some(resolve(Unwrap(response)))
    /\ UNCHANGED response

beside_resolve == <<wvars, bvars, tvars, avars, cvars, dvars, uvars, kvars,
                    fvars, pvars, lvars>>

ResolveSpecInit ==
    /\ response \in {Some(r) : r \in Responses}
    /\ resolved = None
    /\ WorkerIdle /\ BalanceIdle /\ ManagerIdle /\ AdminIdle /\ ClassifyIdle
    /\ DecoderIdle
    /\ UsageIdle
    /\ KeyIdle
    /\ RefreshIdle
    /\ PoolIdle
    /\ LockIdle

ResolveNext == Resolve /\ UNCHANGED beside_resolve

ResolveSpec == ResolveSpecInit /\ [][ResolveNext]_vars

\* the decoder in front of a stream of garbage bytes and then one frame,
\* fed in chunks of any size (an empty one included) and drained by decode()
\* and by the iterator
beside_decoder == <<wvars, bvars, tvars, avars, cvars, rvars, uvars, kvars,
                    fvars, pvars, lvars>>

DecoderSpecInit ==
    /\ input \in {Garbage(g) \o ValidFrame \o Garbage(t) :
                     g \in 0..MaxGarbage, t \in 0..MaxTrailing}
    /\ fed = 0 /\ buffer = <<>> /\ state = "AwaitingData"
    /\ frames_decoded = 0 /\ error_count = 0 /\ yielded = "nothing"
    /\ errors_yielded = 0
    /\ WorkerIdle /\ BalanceIdle /\ ManagerIdle /\ AdminIdle /\ ClassifyIdle
    /\ ResolveIdle
    /\ UsageIdle
    /\ KeyIdle
    /\ RefreshIdle
    /\ PoolIdle
    /\ LockIdle

DecoderNext ==
    \/ (\E n \in 0..(MaxGarbage + FrameLen) : Feed(n)) /\ UNCHANGED beside_decoder
    \/ Decode /\ UNCHANGED beside_decoder
    \/ IterNext /\ UNCHANGED beside_decoder

DecoderSpec == DecoderSpecInit /\ [][DecoderNext]_vars

\* the user drains the decoder: it goes on feeding what it has, an empty
\* chunk when it has no more, and goes on calling decode()
DecoderFairSpec ==
    /\ DecoderSpec
    /\ WF_vars((\E n \in 0..(MaxGarbage + FrameLen) : Feed(n))
                  /\ UNCHANGED beside_decoder)
    /\ WF_vars((Decode \/ IterNext) /\ UNCHANGED beside_decoder)

\* fetch_balance over the usage records: current_usage() and usage_limit()
\* are f64 values read from the upstream's answer
UsageRecords ==
    [current_usage : (0 - MaxUsage)..MaxUsage, usage_limit : (0 - MaxUsage)..MaxUsage]

FetchBalance ==
    /\ IsSome(probe)
    /\ payload = None
    /\ payload' = Some(fetch_balance(7, Unwrap(probe)))
    /\ UNCHANGED probe

beside_usage == <<wvars, bvars, tvars, avars, cvars, rvars, dvars, kvars,
                  fvars, pvars, lvars>>

UsageSpecInit ==
    /\ probe \in {Some(Err(E_Usage))} \cup {Some(Ok(u)) : u \in UsageRecords}
    /\ payload = None
    /\ WorkerIdle /\ BalanceIdle /\ ManagerIdle /\ AdminIdle /\ ClassifyIdle
    /\ ResolveIdle /\ DecoderIdle
    /\ KeyIdle
    /\ RefreshIdle
    /\ PoolIdle
    /\ LockIdle

UsageNext == FetchBalance /\ UNCHANGED beside_usage

UsageSpec == UsageSpecInit /\ [][UsageNext]_vars

\* the key recovery over every block of key_len bytes, the padded AES keys
\* among them
RECURSIVE SeqsOf(_, _)
SeqsOf(S, n) ==
    IF n = 0 THEN {<<>>}
    ELSE {<<x>> \o t : x \in S, t \in SeqsOf(S, n - 1)}

\* the server's side: PKCS#1 v1.5 type 1 padding of a payload to key_len
\* bytes
pkcs1_pad(key) ==
    <<0, 1>> \o [i \in 1..(KeyLen - 3 - Len(key)) |-> 255] \o <<0>> \o key

RecoverAesKey ==
    /\ block # <<>>
    /\ recovered = None
    /\ recovered' = Some(recover_aes_key(block))
    /\ UNCHANGED block

beside_key == <<wvars, bvars, tvars, avars, cvars, rvars, dvars, uvars,
                fvars, pvars, lvars>>

KeySpecInit ==
    /\ block \in SeqsOf(Bytes, KeyLen)
    /\ recovered = None
    /\ WorkerIdle /\ BalanceIdle /\ ManagerIdle /\ AdminIdle /\ ClassifyIdle
    /\ ResolveIdle /\ DecoderIdle /\ UsageIdle
    /\ RefreshIdle
    /\ PoolIdle
    /\ LockIdle

KeyNext == RecoverAesKey /\ UNCHANGED beside_key

KeySpec == KeySpecInit /\ [][KeyNext]_vars

\* concurrent callers of current(), each calling once, on credentials some
\* of which have an expired access token
beside_refresh == <<wvars, bvars, tvars, avars, cvars, rvars, dvars, uvars,
                    kvars, pvars, lvars>>

RefreshSpecInit ==
    /\ coll_lock = None
    /\ gates = [id \in GateIds |-> None]
    /\ tokens \in [GateIds -> {Expired, MaxCallers + 1}]
    /\ caller_pc = [c \in TokenCallers |-> "idle"]
    /\ caller_id = [c \in TokenCallers |-> 0]
    /\ returned = [c \in TokenCallers |-> None]
    /\ refresh_calls = [id \in GateIds |-> 0]
    /\ WorkerIdle /\ BalanceIdle /\ ManagerIdle /\ AdminIdle /\ ClassifyIdle
    /\ ResolveIdle /\ DecoderIdle /\ UsageIdle /\ KeyIdle
    /\ PoolIdle
    /\ LockIdle

RefreshNext ==
    \/ (\E c \in TokenCallers, id \in GateIds : CurrentLock(c, id)) /\ UNCHANGED beside_refresh
    \/ (\E c \in TokenCallers : CurrentLookup(c)) /\ UNCHANGED beside_refresh
    \/ (\E c \in TokenCallers : AwaitGate(c)) /\ UNCHANGED beside_refresh
    \/ (\E c \in TokenCallers : StartRefresh(c)) /\ UNCHANGED beside_refresh
    \/ (\E c \in TokenCallers, ok \in BOOLEAN : FinishRefresh(c, ok)) /\ UNCHANGED beside_refresh

RefreshSpec == RefreshSpecInit /\ [][RefreshNext]_vars

\* a pool of enabled credentials of any priorities in either mode, the first
\* in the order of scheduling being current; refreshes fail and succeed, the
\* pool is rotated and listed
beside_rotation == <<wvars, bvars, avars, cvars, rvars, dvars, uvars, kvars,
                     fvars, lvars>>

PoolSpecInit ==
    /\ \E prio \in [PoolIds -> Priorities] :
           entries = {[id |-> id, refresh_token |-> <<"rA", "rB", "rC", "rD">>[id],
                       priority |-> prio[id], disabled |-> FALSE] : id \in PoolIds}
    /\ current_id = First(entries).id
    /\ lb_mode \in Modes
    /\ id_counter = PoolSize
    /\ failure_count = [id \in PoolIds |-> 0]
    /\ selections = <<>>
    /\ listing = None
    /\ WorkerIdle /\ BalanceIdle /\ AdminIdle /\ ClassifyIdle
    /\ ResolveIdle /\ DecoderIdle /\ UsageIdle /\ KeyIdle /\ RefreshIdle
    /\ LockIdle

PoolNext ==
    \/ (\E id \in PoolIds : PoolRefreshFails(id)) /\ UNCHANGED beside_rotation
    \/ (\E id \in PoolIds : PoolRefreshSucceeds(id)) /\ UNCHANGED beside_rotation
    \/ (\E id \in PoolIds : PoolResetAndEnable(id)) /\ UNCHANGED beside_rotation
    \/ PoolSelect /\ UNCHANGED beside_rotation
    \/ PoolSwitchToNext /\ UNCHANGED beside_rotation
    \/ GetAllCredentials /\ UNCHANGED beside_rotation

PoolSpec == PoolSpecInit /\ [][PoolNext]_vars

\* concurrent get_balance calls on a service with or without a cache path
beside_lock == <<wvars, bvars, tvars, avars, cvars, rvars, dvars, uvars, kvars,
                 fvars, pvars>>

LockSpecInit ==
    /\ cache_mutex = None
    /\ gb_pc = [c \in LockCallers |-> "idle"]
    /\ gb_id = [c \in LockCallers |-> 0]
    /\ gb_val = [c \in LockCallers |-> 0]
    /\ gb_snap = [c \in LockCallers |-> NoBalances]
    /\ mem_cache = NoBalances
    /\ disk_cache = NoBalances
    /\ fetches = 0
    /\ write_failed = FALSE
    /\ path_set \in BOOLEAN
    /\ WorkerIdle /\ BalanceIdle /\ ManagerIdle /\ AdminIdle /\ ClassifyIdle
    /\ ResolveIdle /\ DecoderIdle /\ UsageIdle /\ KeyIdle /\ RefreshIdle
    /\ PoolIdle

LockNext ==
    \/ (\E c \in LockCallers, id \in LockIds : LockForLookup(c, id))
           /\ UNCHANGED beside_lock
    \/ (\E c \in LockCallers, fresh \in BOOLEAN : Lookup(c, fresh))
           /\ UNCHANGED beside_lock
    \/ (\E c \in LockCallers, ok \in BOOLEAN : FetchDone(c, ok))
           /\ UNCHANGED beside_lock
    \/ (\E c \in LockCallers : LockForInsert(c)) /\ UNCHANGED beside_lock
    \/ (\E c \in LockCallers : Insert(c)) /\ UNCHANGED beside_lock
    \/ (\E c \in LockCallers : SaveBegin(c)) /\ UNCHANGED beside_lock
    \/ (\E c \in LockCallers, ok \in BOOLEAN : WriteDone(c, ok))
           /\ UNCHANGED beside_lock

LockSpec == LockSpecInit /\ [][LockNext]_vars

\* one decode_iter pass, nothing being fed meanwhile, over any buffer in
\* any state a decoder can be in: errors are counted in the Recovering
\* state from 1 on, and feed() goes back to AwaitingData with any count
DecoderBytes == {"garbage", "length", "frame"}

DrainSpecInit ==
    /\ \E n \in 0..MaxBuffer : buffer \in SeqsOf(DecoderBytes, n)
    /\ input = buffer
    /\ fed = Len(buffer)
    /\ state \in {"AwaitingData", "Recovering"}
    /\ error_count \in 0..max_errors
    /\ state = "Recovering" => error_count >= 1
    /\ frames_decoded = 0 /\ errors_yielded = 0 /\ yielded = "nothing"
    /\ WorkerIdle /\ BalanceIdle /\ ManagerIdle /\ AdminIdle /\ ClassifyIdle
    /\ ResolveIdle /\ UsageIdle /\ KeyIdle /\ RefreshIdle /\ PoolIdle /\ LockIdle

DrainNext == IterNext /\ UNCHANGED beside_decoder

\* the pass is driven on: next() is called as long as it has not ended
DrainSpec ==
    /\ DrainSpecInit /\ [][DrainNext]_vars
    /\ WF_vars(IterNext /\ UNCHANGED beside_decoder)

\* ------------------------------------------------------------------------
\* Properties of the Cloud Pass worker
\* ------------------------------------------------------------------------
LoopPcs == {"init", "get1", "claim", "get2", "add", "usage", "hb", "wait"}

IsGetCall(x) == x \in {GetCall(TRUE), GetCall(FALSE)}

KickedFirst == IsSome(resp1) /\ Unwrap(resp1).ok /\ Unwrap(resp1).val.kicked

\* the last get_credentials response of the iteration
LastResp == IF IsSome(resp2) THEN resp2 ELSE resp1

\* C1: in an iteration with reassign enabled whose first get_credentials
\* response is kicked, claim_active is the call right after it, the only
\* further get_credentials is made after claim_active and with
\* reassign=true; when that second response is not kicked and carries a
\* refresh token, add_credential is called with it, and once it returns an
\* id the status records a success with injected_credential_id = that id.
C1_KickedReassign ==
    (reassign /\ KickedFirst) =>
        /\ Len(calls) >= 2
        /\ calls[1] = GetCall(reassign)
        /\ calls[2] = "claim_active"
        /\ \A i \in 2..Len(calls) :
               IsGetCall(calls[i]) => i = 3 /\ calls[i] = GetCall(TRUE)
        /\ IsSome(resp2) => Len(calls) >= 3 /\ calls[3] = GetCall(TRUE)
        /\ ( /\ IsSome(resp2)
             /\ Unwrap(resp2).ok
             /\ ~Unwrap(resp2).val.kicked
             /\ IsSome(Unwrap(resp2).val.refresh_token) ) =>
               /\ Len(calls) >= 4
               /\ calls[4] = "add_credential"
               /\ creds.refresh_token = Unwrap(resp2).val.refresh_token
               /\ (IsSome(add_res) /\ Unwrap(add_res).ok) =>
                      /\ status.last_refresh_ok
                      /\ status.refresh_success_count >= 1
                      /\ status.injected_credential_id = Some(Unwrap(add_res).val)
                      /\ [id |-> Unwrap(add_res).val,
                          refresh_token |-> Unwrap(creds.refresh_token)] \in pool

C1_Witness ==
    /\ reassign /\ KickedFirst
    /\ IsSome(resp2) /\ Unwrap(resp2).ok /\ ~Unwrap(resp2).val.kicked
    /\ IsSome(add_res) /\ Unwrap(add_res).ok
    /\ status.injected_credential_id = Some(Unwrap(add_res).val)
    /\ calls = <<GetCall(TRUE), "claim_active", GetCall(TRUE), "add_credential",
                 "get_usage_limits_for", "heartbeat">>

\* C2: add_credential is called only when the last get_credentials
\* response of the iteration is not kicked; a kicked response with reassign
\* disabled, or a response still kicked after claim_active and the re-fetch,
\* injects nothing and fails the iteration with status.kicked = true, and
\* with reassign disabled claim_active is not called.
C2_KickedNeverInjects ==
    /\ (\E i \in 1..Len(calls) : calls[i] = "add_credential") =>
           /\ IsSome(LastResp)
           /\ Unwrap(LastResp).ok
           /\ ~Unwrap(LastResp).val.kicked
    /\ (KickedFirst /\ ~reassign) =>
           /\ \A i \in 1..Len(calls) :
                  calls[i] \notin {"add_credential", "claim_active"}
           /\ add_res = None
           /\ outcome = "err"
           /\ ~status.last_refresh_ok
           /\ status.last_refresh_error = Some(E_Kicked)
           /\ status.kicked
    /\ (IsSome(resp2) /\ Unwrap(resp2).ok /\ Unwrap(resp2).val.kicked) =>
           /\ \A i \in 1..Len(calls) : calls[i] # "add_credential"
           /\ add_res = None
           /\ outcome = "err"
           /\ ~status.last_refresh_ok
           /\ status.last_refresh_error = Some(E_StillKicked)
           /\ status.kicked

C2_Witness ==
    /\ reassign /\ KickedFirst
    /\ IsSome(resp2) /\ Unwrap(resp2).ok /\ Unwrap(resp2).val.kicked
    /\ IsSome(Unwrap(resp2).val.refresh_token)
    /\ outcome = "err" /\ status.kicked
    /\ pool = {}
    /\ pc = "hb"

IsDuplicateError(r) == IsSome(r) /\ ~Unwrap(r).ok /\ Unwrap(r).err = E_Duplicate

\* C3: when add_credential fails with the duplicate-refresh-token error,
\* refresh_success_count grows by one, last_refresh_ok becomes true,
\* refresh_failure_count and injected_credential_id stay as they were, and
\* the worker goes on to the heartbeat without a usage pre-warm call.
C3_DuplicateIsSuccessNoOp ==
    [][(pc = "add" /\ IsDuplicateError(add_res')) =>
          /\ status'.refresh_success_count = status.refresh_success_count + 1
          /\ status'.last_refresh_ok
          /\ status'.last_refresh_error = None
          /\ status'.refresh_failure_count = status.refresh_failure_count
          /\ status'.injected_credential_id = status.injected_credential_id
          /\ outcome' = "ok"
          /\ pool' = pool
          /\ pc' = "hb"
          /\ \A i \in 1..Len(calls') : calls'[i] # "get_usage_limits_for"]_vars

C3_Witness ==
    /\ IsDuplicateError(add_res)
    /\ outcome = "ok"
    /\ pc = "hb"
    /\ status.last_refresh_ok
    /\ status.refresh_success_count = 2
    /\ status.refresh_failure_count = 0
    /\ status.injected_credential_id = Some(1)

\* the error do_refresh returns, told from the iteration's responses
IterationError(r1, r2, ar, cs) ==
    IF IsSome(ar) THEN Unwrap(ar).err
    ELSE IF IsSome(r2)
         THEN IF ~Unwrap(r2).ok THEN Unwrap(r2).err
              ELSE IF Unwrap(r2).val.kicked THEN E_StillKicked
              ELSE E_NoRefreshToken
    ELSE IF \E i \in 1..Len(cs) : cs[i] = "claim_active" THEN E_Transport
    ELSE IF ~Unwrap(r1).ok THEN Unwrap(r1).err
    ELSE IF Unwrap(r1).val.kicked THEN E_Kicked
    ELSE E_NoRefreshToken

\* C4: the worker never leaves its loop; every step in which do_refresh
\* fails sets last_refresh_ok = false and last_refresh_error to the error's
\* text, adds exactly one to refresh_failure_count, and is followed by the
\* heartbeat, after which the worker waits or starts the next iteration.
C4_ErrorsStayInLoop ==
    /\ [](pc \in LoopPcs)
    /\ [][(outcome # "err" /\ outcome' = "err") =>
             /\ ~status'.last_refresh_ok
             /\ status'.last_refresh_error =
                    Some(IterationError(resp1', resp2', add_res', calls))
             /\ status'.refresh_failure_count = status.refresh_failure_count + 1
             /\ status'.refresh_success_count = status.refresh_success_count
             /\ pc' = "hb"]_vars
    /\ [][(pc = "hb" /\ pc' # "hb") => pc' \in {"wait", "get1"}]_vars

C4_Witness ==
    /\ pc = "wait"
    /\ status.refresh_failure_count = 2
    /\ status.refresh_success_count = 0
    /\ ~status.last_refresh_ok
    /\ status.last_refresh_error = Some(E_Transport)
    /\ IsSome(hb_res) /\ ~Unwrap(hb_res).ok

\* C5: once an iteration has recorded a success, whatever failed or kicked
\* iterations came before, the status has last_refresh_ok = true, no
\* last_refresh_error, connected = true and kicked = false.
C5_SuccessClearsErrors ==
    (outcome = "ok" \/ pc = "usage") =>
        /\ status.last_refresh_ok
        /\ status.last_refresh_error = None
        /\ status.connected
        /\ ~status.kicked

C5_Witness ==
    /\ outcome = "ok"
    /\ reassign /\ KickedFirst
    /\ status.refresh_failure_count = 2
    /\ status.refresh_success_count = 1
    /\ status.last_refresh_error = None
    /\ ~status.kicked

HeartbeatCount(cs) == Cardinality({i \in 1..Len(cs) : cs[i] = "heartbeat"})

\* C6: when do_refresh returns, with a success or a failure, the worker
\* calls heartbeat next, once; the wait is entered only from the heartbeat;
\* the step taken when the heartbeat returns, failed or not, changes no
\* status field and leads to the wait or to the next iteration.
C6_HeartbeatEveryIteration ==
    /\ [](pc = "hb" =>
             /\ outcome # "none"
             /\ HeartbeatCount(calls) = 1
             /\ calls[Len(calls)] = "heartbeat")
    /\ [](pc # "hb" => HeartbeatCount(calls) = 0)
    /\ [][(outcome = "none" /\ outcome' # "none") => pc' = "hb"]_vars
    /\ [][(pc # "wait" /\ pc' = "wait") => pc = "hb"]_vars
    /\ [][pc = "hb" => status' = status /\ pc' \in {"hb", "wait", "get1"}]_vars

C6_Witness ==
    /\ pc = "get1"
    /\ hb_res = Some(Err(E_Transport))
    /\ woke.by = "timeout"
    /\ status.refresh_success_count = 1
    /\ status.refresh_failure_count = 0
    /\ status.last_refresh_ok

\* C7: the trigger_refresh calls made since the last wait ended, one or
\* many, are held as one pending signal; at the next select! they end the
\* wait at once and are all consumed by that one wake-up, and a select!
\* entered with no signal pending blocks.
C7_TriggersCoalesce ==
    /\ [](pending > 0 => permit)
    /\ [][(pc = "hb" /\ pc' # "hb" /\ pending > 0 /\ Attempts < MaxAttempts) =>
             /\ pc' = "get1"
             /\ woke' = [by |-> "at_once", triggers |-> pending]
             /\ ~permit'
             /\ pending' = 0]_vars
    /\ [][(pc = "hb" /\ pc' # "hb" /\ ~permit) => pc' = "wait" /\ timer' = 0]_vars
    /\ [][(permit /\ ~permit') =>
             pc' = "get1" /\ woke'.by \in {"at_once", "notified"}]_vars

C7_Witness ==
    /\ pc = "hb"
    /\ woke = [by |-> "at_once", triggers |-> MaxPending]
    /\ ~permit
    /\ pending = 0
    /\ Attempts = 2

\* C8: the wait never lasts longer than the configured refresh interval,
\* however many iterations have failed; it ends only when the interval has
\* elapsed or a manual refresh signal is there; and under fairness every
\* wait is followed by a new refresh attempt.
C8_NoBackoff ==
    /\ [](pc = "wait" => timer <= RefreshInterval)
    /\ [][(pc = "wait" /\ pc' # "wait") =>
             /\ pc' = "get1"
             /\ (timer = RefreshInterval \/ permit)]_vars
    /\ ((pc = "wait" /\ Attempts < MaxAttempts) ~> (pc = "get1"))

C8_Witness ==
    /\ pc = "get1"
    /\ woke = [by |-> "timeout", triggers |-> 0]
    /\ status.refresh_failure_count = 2
    /\ status.refresh_success_count = 0

\* ------------------------------------------------------------------------
\* Properties of the balance cache
\* ------------------------------------------------------------------------
TTLTicks == BALANCE_CACHE_TTL_SECS * TicksPerSec

\* what `last` is after get_balance(id) returned data from the cache
HitReturn(id, data) == Some([id |-> id, hit |-> TRUE, res |-> Ok(data)])

\* C9 as stated: a get_balance(id) called less than 300 s after a
\* get_balance(id) succeeded makes no upstream probe and returns the same
\* payload.
C9_AsStated ==
    [][\A c \in Callers, id \in Ids :
          ( /\ GetBalance(c, id)
            /\ IsSome(prev_ok[id])
            /\ clock - Unwrap(prev_ok[id]).clock < TTLTicks ) =>
              /\ call'[c].pc = "idle"
              /\ last' = HitReturn(id, Unwrap(prev_ok[id]).data)]_vars

\* C9, amended: a get_balance(id) called while the latest result stored for
\* id is less than 300 whole seconds old (both times truncated to seconds)
\* makes no upstream probe and returns the stored payload.
C9_FreshEntryIsServed ==
    [][\A c \in Callers, id \in Ids :
          ( /\ GetBalance(c, id)
            /\ IsSome(stored[id])
            /\ timestamp(clock) - timestamp(Unwrap(stored[id]).clock)
                   < BALANCE_CACHE_TTL_SECS ) =>
              /\ call'[c].pc = "idle"
              /\ last' = HitReturn(id, Unwrap(stored[id]).data)]_vars

C9_Witness ==
    \E id \in Ids :
        /\ IsSome(stored[id])
        /\ timestamp(clock) - timestamp(Unwrap(stored[id]).clock)
               = BALANCE_CACHE_TTL_SECS - 1
        /\ last = HitReturn(id, Unwrap(stored[id]).data)
        /\ prev_ok[id] = Some([clock |-> clock, data |-> Unwrap(stored[id]).data])

\* C10: a payload get_balance(id) returns without an upstream probe is the
\* one stored for id less than 300 s before the call; every other payload
\* it returns is built from the usage record fetched in that call, so an
\* entry aged 300 s or more is never returned.
C10_NeverServesStale ==
    /\ [][\A c \in Callers, id \in Ids :
             (GetBalance(c, id) /\ call'[c].pc = "idle") =>
                 /\ IsSome(stored[id])
                 /\ clock - Unwrap(stored[id]).clock < TTLTicks
                 /\ last' = HitReturn(id, Unwrap(stored[id]).data)]_vars
    /\ [][\A c \in Callers, id \in Ids :
             (GetBalance(c, id) /\ IsSome(stored[id])
                  /\ clock - Unwrap(stored[id]).clock >= TTLTicks) =>
                 /\ call'[c] = [pc |-> "fetch", id |-> id]
                 /\ last' = last]_vars
    /\ [][\A c \in Callers, ures \in UsageResults :
             (FetchReturn(c, ures) /\ ures.ok) =>
                 last' = Some([id |-> call[c].id, hit |-> FALSE,
                               res |-> Ok(BalanceResponse(call[c].id, ures.val))])]_vars

C10_Witness ==
    \E id \in Ids :
        /\ IsSome(stored[id])
        /\ clock - Unwrap(stored[id]).clock = TTLTicks - 1
        /\ last = HitReturn(id, Unwrap(stored[id]).data)

\* ------------------------------------------------------------------------
\* Properties of the balance cache across deletes and restarts
\* ------------------------------------------------------------------------
\* the credentials deleted so far: ids are never assigned again
Deleted == Ids \ EntryIds(entries)

\* C11: once delete_credential(id) has succeeded the balance cache holds
\* no entry for id, and no get_balance(id) made afterwards is answered from
\* the cache: it goes to the token manager.
C11_DeletePurgesBalance ==
    /\ [](\A id \in Deleted : balance_cache[id] = None)
    /\ [][\A c \in Callers, id \in Deleted :
             GetBalance(c, id) => call'[c] = [pc |-> "fetch", id |-> id]]_vars

\* the entry the cache file holds for id
Persisted(id) ==
    IF IsSome(cache_path) /\ cache_file.state = "json"
    THEN cache_file.map[to_string(id)]
    ELSE None

\* its age as the service measures it: now - cached_at, in whole seconds
Age(e) == timestamp(clock) - e.cached_at

PersistedFresh ==
    [id \in Ids |->
        IF IsSome(Persisted(id)) /\ Age(Unwrap(Persisted(id))) < BALANCE_CACHE_TTL_SECS
        THEN Persisted(id)
        ELSE None]

\* C12: with a cache path and a well-formed cache file, the cache a
\* restarted service starts with holds, for every id, the entry the file
\* has under the id's decimal key when that entry is younger than 300 s at
\* load time, and nothing else (no older entry, nothing from a key that is
\* not a number); and a get_balance(id) made after the restart, while the
\* entry persisted before the restart is younger than 300 s, returns that
\* entry's payload without an upstream probe.
C12_RestartKeepsFreshEntries ==
    /\ [][(restarts' = restarts + 1 /\ IsSome(cache_path)
               /\ cache_file.state = "json") =>
             balance_cache' = PersistedFresh]_vars
    /\ [][\A c \in Callers, id \in Ids :
             ( /\ GetBalance(c, id)
               /\ restarts > 0
               /\ stored[id] = None
               /\ IsSome(Persisted(id))
               /\ Age(Unwrap(Persisted(id))) < BALANCE_CACHE_TTL_SECS ) =>
                 /\ call'[c].pc = "idle"
                 /\ last' = HitReturn(id, Unwrap(Persisted(id)).data)]_vars

\* after a restart the entry of 7 was served from the cache although this
\* process never fetched it, and the expired entry of 8, still in the file,
\* was not loaded
C12_Witness ==
    /\ restarts = 1
    /\ stored[7] = None
    /\ IsSome(Persisted(7))
    /\ last = HitReturn(7, Unwrap(Persisted(7)).data)
    /\ IsSome(Persisted(8))
    /\ Age(Unwrap(Persisted(8))) >= BALANCE_CACHE_TTL_SECS
    /\ balance_cache[8] = None

\* ------------------------------------------------------------------------
\* Properties of the admin service's operations on the pool
\* ------------------------------------------------------------------------
\* the admin thread a returns from its set_disabled call in this step
SetDisabledReturns(a) == acall[a].pc \in {"set", "switch"} /\ acall'[a].pc = "idle"

\* the credential was the current one when the manager disabled it
WasCurrent(a) ==
    IF acall[a].pc = "set" THEN current_id = acall[a].id ELSE acall[a].was_current

\* C13: when set_disabled(id, true) returns Ok and id was the current
\* credential when it was disabled, the current credential is an enabled
\* one or there is none; the disabled id is not current.
C13_DisabledCurrentIsReplaced ==
    [][\A a \in AdminThreads :
          ( /\ SetDisabledReturns(a)
            /\ acall[a].disabled
            /\ Unwrap(ret').res.ok
            /\ WasCurrent(a) ) =>
              \/ current_id' = 0
              \/ current_id' \in EntryIds(Selectable(entries'))]_vars

\* C14: a set_disabled call goes on to switch_to_next only from the
\* manager's set_disabled(id, true) having returned Ok; a call whose
\* manager set_disabled failed, and a call with disabled = false, returns
\* without changing the current id; only the switch_to_next step of a call
\* changes the current id; and the call returns Ok after switch_to_next
\* whatever switch_to_next returned.
C14_SwitchOnlyAfterDisable ==
    [][\A a \in AdminThreads :
          /\ (acall[a].pc # "switch" /\ acall'[a].pc = "switch") =>
                 /\ acall[a].pc = "set"
                 /\ acall[a].disabled
                 /\ set_disabled(entries, acall[a].id, TRUE).res.ok
                 /\ EntryOf(entries', acall[a].id).disabled
          /\ (acall[a].pc = "set" /\ acall'[a].pc = "idle"
                  /\ ~Unwrap(ret').res.ok) =>
                 /\ current_id' = current_id
                 /\ entries' = entries
                 /\ Unwrap(ret').switched = "no"
          /\ (acall[a].pc = "set" /\ ~acall[a].disabled /\ acall'[a] # acall[a]) =>
                 /\ acall'[a].pc = "idle"
                 /\ current_id' = current_id
                 /\ Unwrap(ret').switched = "no"
          /\ (acall'[a] # acall[a] /\ current_id' # current_id) =>
                 acall[a].pc = "switch"
          /\ (acall[a].pc = "switch" /\ acall'[a].pc = "idle") =>
                 /\ Unwrap(ret').op = "set_disabled"
                 /\ Unwrap(ret').res = Ok({})]_vars

\* set_disabled returned Ok although its switch_to_next found nothing
\* selectable
C14_Witness ==
    /\ IsSome(ret)
    /\ Unwrap(ret).op = "set_disabled"
    /\ Unwrap(ret).res.ok
    /\ Unwrap(ret).switched = "failed"
    /\ entries # {}
    /\ Selectable(entries) = {}

\* C15: set_load_balancing_mode with a mode other than "priority" and
\* "balanced" returns an InvalidCredential error without going to the token
\* manager and leaves the mode as it was; with one of the two modes, an Ok
\* return carries the requested mode, which is then the active one, and
\* the only error is the manager's, as InternalError.
C15_ModeIsValidated ==
    [][\A mode \in RequestedModes, persist_ok \in BOOLEAN :
          ( /\ IsSome(ret')
            /\ Unwrap(ret').op = "set_load_balancing_mode"
            /\ SetLoadBalancingMode(mode, persist_ok) ) =>
              LET r == Unwrap(ret')
              IN  IF mode \notin {"priority", "balanced"}
                  THEN /\ ~r.res.ok
                       /\ r.res.kind = "InvalidCredential"
                       /\ status_code(r.res.kind) = 400
                       /\ ~r.delegated
                       /\ lb_mode' = lb_mode
                  ELSE /\ r.delegated
                       /\ r.res.ok => (r.res.val.mode = mode /\ lb_mode' = mode)
                       /\ ~r.res.ok => (r.res.kind = "InternalError"
                                           /\ lb_mode' = lb_mode)]_vars

\* an unknown mode was refused while the mode was "balanced"
C15_Witness ==
    /\ IsSome(ret)
    /\ Unwrap(ret).op = "set_load_balancing_mode"
    /\ ~Unwrap(ret).res.ok
    /\ Unwrap(ret).res.kind = "InvalidCredential"
    /\ lb_mode = "balanced"

\* C16: add_credential with a refresh token some credential of the pool
\* has fails with an InvalidCredential error (HTTP 400) whose message names
\* the duplication, and leaves the pool and the id counter as they were.
C16_DuplicateIsRefused ==
    [][\A token \in AdminTokens, p \in Priorities, probe_ok \in BOOLEAN :
          ( /\ IsSome(ret')
            /\ Unwrap(ret').op = "add_credential"
            /\ AdminAddCredential(token, p, probe_ok)
            /\ \E e \in entries : e.refresh_token = token ) =>
              LET r == Unwrap(ret')
              IN  /\ ~r.res.ok
                  /\ r.res.kind = "InvalidCredential"
                  /\ status_code(r.res.kind) = 400
                  /\ r.res.err = E_Duplicate
                  /\ contains(r.res.err, "refreshToken chongfu")
                  /\ entries' = entries
                  /\ id_counter' = id_counter]_vars

\* the second add of a token was refused and the pool still has the one
\* credential
C16_Witness ==
    /\ IsSome(ret)
    /\ Unwrap(ret).op = "add_credential"
    /\ ~Unwrap(ret).res.ok
    /\ Unwrap(ret).res.kind = "InvalidCredential"
    /\ Unwrap(ret).res.err = E_Duplicate
    /\ Cardinality(entries) = 1
    /\ id_counter = 1

\* ------------------------------------------------------------------------
\* Properties of the error classification
\* ------------------------------------------------------------------------
ClassifiedBy(ops) == IsSome(classified) /\ Unwrap(classified).op \in ops

\* C17: an add_credential error is InvalidCredential when its message has an
\* invalid-credential keyword; otherwise Upstream when it has one of the
\* network wordings of the balance classifier ("error trying to connect",
\* "connection", "timeout", "timed out"); otherwise Internal.
C17_AddErrorKinds ==
    ClassifiedBy({"add_credential"}) =>
        Unwrap(classified).kind =
            IF error_msg \cap InvalidCredentialKeywords # {} THEN "InvalidCredential"
            ELSE IF error_msg \cap NetworkKeywords # {} THEN "UpstreamError"
            ELSE "InternalError"

\* C18: a get_balance error is NotFound when its message has the not-found
\* marker, whatever else it has; otherwise Upstream when it has an HTTP or
\* network keyword; otherwise Internal. An error of set_disabled,
\* set_priority, reset_and_enable or delete_credential is NotFound when its
\* message has the marker and Internal otherwise.
C18_BalanceErrorPrecedence ==
    /\ ClassifiedBy({"get_balance"}) =>
           Unwrap(classified).kind =
               IF error_msg \cap NotFoundKeywords # {} THEN "NotFound"
               ELSE IF error_msg \cap (HttpKeywords \cup NetworkKeywords) # {}
               THEN "UpstreamError"
               ELSE "InternalError"
    /\ ClassifiedBy(SimpleOps \cup {"delete_credential"}) =>
           Unwrap(classified).kind =
               IF error_msg \cap NotFoundKeywords # {} THEN "NotFound"
               ELSE "InternalError"

\* a get_balance error with the not-found marker and a network keyword came
\* out as NotFound
C18_Witness ==
    /\ ClassifiedBy({"get_balance"})
    /\ error_msg = {"does not exist", "timed out"}
    /\ Unwrap(classified).kind = "NotFound"

\* ------------------------------------------------------------------------
\* Properties of the Cloud Pass response
\* ------------------------------------------------------------------------
\* the value of field f at each place of a response, an absent object
\* having no field
PlacesOf(resp, f) ==
    <<IF IsSome(resp.credentials) THEN Unwrap(resp.credentials)[f] ELSE None,
      IF IsSome(resp.data) /\ IsSome(Unwrap(resp.data).credentials)
      THEN Unwrap(Unwrap(resp.data).credentials)[f] ELSE None,
      IF IsSome(resp.data) THEN Unwrap(resp.data).fields[f] ELSE None,
      resp.fields[f]>>

\* the first value of a sequence of options that is present
FirstSome(opts) ==
    IF \A i \in 1..Len(opts) : opts[i] = None THEN None
    ELSE opts[CHOOSE i \in 1..Len(opts) :
                  /\ IsSome(opts[i])
                  /\ \A j \in 1..(i - 1) : opts[j] = None]

\* C19: for every credential field, resolve() returns the first value
\* present in the order credentials, data.credentials, data, top level.
C19_FieldPrecedence ==
    IsSome(resolved) =>
        \A f \in Fields :
            Unwrap(resolved)[f] = FirstSome(PlacesOf(Unwrap(response), f))

\* ------------------------------------------------------------------------
\* Properties of the Cloud Pass client
\* ------------------------------------------------------------------------
\* the response after decryption, if encrypted; None when there is none
Decrypted(raw) ==
    IF raw.send # "ok" THEN None
    ELSE IF raw.encrypted THEN raw.inner
    ELSE Some(raw.outer)

FailureResponses ==
    {raw \in RawResponses : IsSome(Decrypted(raw)) /\ ~Unwrap(Decrypted(raw)).success}

\* C20: for a response that, after decryption if encrypted, has
\* success = false, get_credentials returns an error, made of the server's
\* message when it has one, and no credentials; when a get_credentials call
\* of the worker returns it, the iteration is recorded as failed with that
\* error, add_credential is not called and the pool and the injected id
\* stay as they were.
C20_FailureResponseIsAnError ==
    [][\A raw \in FailureResponses :
          LET res == get_credentials(raw)
              body == Unwrap(Decrypted(raw))
          IN  /\ ~res.ok
              /\ res.val = {}
              /\ IsSome(body.message) =>
                     res.err = "get-credentials failed: " \o Unwrap(body.message)
              /\ (GetCredentials1(res) \/ GetCredentials2(res)) =>
                     /\ status'.last_refresh_ok = FALSE
                     /\ status'.last_refresh_error = Some(res.err)
                     /\ status'.refresh_failure_count =
                            status.refresh_failure_count + 1
                     /\ status'.refresh_success_count = status.refresh_success_count
                     /\ status'.injected_credential_id =
                            status.injected_credential_id
                     /\ outcome' = "err"
                     /\ calls' = Append(calls, "heartbeat")
                     /\ pool' = pool
                     /\ next_id' = next_id]_vars

\* the first get_credentials of the worker met a failure response with the
\* server's message: one failure recorded, nothing injected
C20_Witness ==
    /\ resp1 = Some(Err(get_failed("server message")))
    /\ resp2 = None
    /\ outcome = "err"
    /\ status.last_refresh_error = Some("get-credentials failed: server message")
    /\ status.refresh_failure_count = 1
    /\ status.injected_credential_id = None
    /\ pool = {}
    /\ \A i \in 1..Len(calls) : calls[i] # "add_credential"

\* ------------------------------------------------------------------------
\* Properties of the event stream decoder
\* ------------------------------------------------------------------------
\* the stream begins with garbage
GarbageFirst == input # <<>> /\ input[1] = "garbage"

\* the decoder is latched: its consecutive errors reached the bound
Latched == state = "Recovering" /\ error_count >= max_errors

\* C21: for garbage bytes followed by one valid frame, the drained decoder
\* never counts more than max_errors consecutive errors and in the end has
\* yielded errors and then the frame, with frames_decoded = 1.
C21_ResyncReachesFrame ==
    /\ [](GarbageFirst => error_count <= max_errors)
    /\ GarbageFirst => <>(frames_decoded = 1 /\ errors_yielded > 0)

\* C22: the iterator ends without a decode attempt only when the decoder is
\* latched, and then the decoder is left as it is; otherwise next() returns
\* what decode() returns.
C22_IteratorStopsOnlyLatched ==
    [][IterNext =>
          IF Latched
          THEN yielded' = "stopped" /\ buffer' = buffer /\ error_count' = error_count
          ELSE decode]_vars

\* C23: a decode() call that returns an error adds one to error_count and
\* takes one byte from the front of the buffer.
C23_ErrorSkipsOneByte ==
    [][((Decode \/ IterNext) /\ errors_yielded' # errors_yielded) =>
          /\ error_count' = error_count + 1
          /\ buffer' = advance(buffer, 1)]_vars

\* ------------------------------------------------------------------------
\* Properties of the balance payload
\* ------------------------------------------------------------------------
\* C24: the payload made of a usage record has usage_percentage within
\* 0..100, 0 when usage_limit is not positive, and
\* remaining = max(usage_limit - current_usage, 0), which is not negative.
C24_PayloadIsClamped ==
    (IsSome(payload) /\ Unwrap(payload).ok) =>
        LET b == Unwrap(payload).val
            u == Unwrap(probe).val
        IN  /\ b.usage_percentage >= 0
            /\ b.usage_percentage <= 100
            /\ u.usage_limit <= 0 => b.usage_percentage = 0
            /\ b.remaining = Max(u.usage_limit - u.current_usage, 0)
            /\ b.remaining >= 0

\* ------------------------------------------------------------------------
\* Properties of the AES key recovery
\* ------------------------------------------------------------------------
\* the block has a 0x00 right after the 0xFF run that follows its first two
\* bytes
HasSeparator(b) == \E i \in 3..Len(b) : b[i] = 0 /\ \A j \in 3..(i - 1) : b[j] = 255

\* what follows that separator
AfterSeparator(b) ==
    LET i == CHOOSE i \in 3..Len(b) : b[i] = 0 /\ \A j \in 3..(i - 1) : b[j] = 255
    IN  SubSeq(b, i + 1, Len(b))

\* C25: the padding of an AES key is taken off to exactly that key; a block
\* that does not begin with 0x00 0x01, or has no 0x00 after the 0xFF run,
\* is rejected; and a recovered key of another length than an AES key's is
\* rejected without the AES decryption being reached.
C25_PaddingRoundTrip ==
    IsSome(recovered) =>
        LET r == Unwrap(recovered)
        IN  /\ \A key \in SeqsOf(Bytes, AesKeyLen) :
                   block = pkcs1_pad(key) =>
                       r.ok /\ r.val = key /\ r.aes
            /\ (block[1] # 0 \/ block[2] # 1) => (~r.ok /\ ~r.aes)
            /\ ~HasSeparator(block) => (~r.ok /\ ~r.aes)
            /\ (block[1] = 0 /\ block[2] = 1 /\ HasSeparator(block)
                    /\ Len(AfterSeparator(block)) # AesKeyLen) =>
                   (~r.ok /\ ~r.aes /\ r.err = E_KeyLength)

\* the padding of a key that itself begins with 0xFF was taken off
C25_Witness ==
    /\ block = pkcs1_pad(<<255, 0>> \o [i \in 1..(AesKeyLen - 2) |-> 2])
    /\ IsSome(recovered)
    /\ Unwrap(recovered).ok
    /\ Unwrap(recovered).val = <<255, 0>> \o [i \in 1..(AesKeyLen - 2) |-> 2]

\* ------------------------------------------------------------------------
\* Properties of the refresh gate
\* ------------------------------------------------------------------------
\* the callers whose outbound refresh of id is in flight
InFlight(id) == {c \in TokenCallers : caller_pc[c] = "refreshing" /\ caller_id[c] = id}

\* the callers served from id
CallersOf(id) == {c \in TokenCallers : caller_id[c] = id}

\* C26: at most one refresh of a credential is in flight; no caller holds
\* the collection lock while it awaits the gate or its refresh is in flight;
\* and when every caller of a credential has been given a token, at most one
\* outbound refresh call was made for it and the tokens are the same.
C26_SingleFlight ==
    /\ \A id \in GateIds : Cardinality(InFlight(id)) <= 1
    /\ \A c \in TokenCallers :
           caller_pc[c] \in {"await_gate", "gated", "refreshing"} => coll_lock # Some(c)
    /\ \A id \in GateIds :
           (\A c \in CallersOf(id) : IsSome(returned[c]) /\ Unwrap(returned[c]).ok) =>
               /\ refresh_calls[id] <= 1
               /\ \A c1, c2 \in CallersOf(id) : returned[c1] = returned[c2]

\* two callers met on an expired credential: one refresh was made and both
\* were given its token
C26_Witness ==
    \E id \in GateIds :
        /\ Cardinality(CallersOf(id)) >= 2
        /\ refresh_calls[id] = 1
        /\ \A c \in CallersOf(id) : returned[c] = Some(TokenOk(1))

\* ------------------------------------------------------------------------
\* Properties of the rotation of the pool
\* ------------------------------------------------------------------------
EnabledIn(es) == {e \in es : ~e.disabled}

\* id is the enabled credential of the lowest priority value, of the lowest
\* id among those
LowestEnabled(es, id) ==
    \E e \in EnabledIn(es) :
        /\ e.id = id
        /\ \A o \in EnabledIn(es) :
               o.priority > e.priority \/ (o.priority = e.priority /\ o.id >= e.id)

\* the listing names cur as the current id and marks exactly its item
ListsCurrent(l, cur) ==
    /\ l.current_id = cur
    /\ \A i \in 1..Len(l.credentials) :
           l.credentials[i].is_current <=> l.credentials[i].id = cur
    /\ cur # 0 =>
           Cardinality({i \in 1..Len(l.credentials) : l.credentials[i].is_current}) = 1

\* C28: in priority mode a newly selected credential is the enabled one of
\* the lowest priority value, ties to the lowest id; the failure with which
\* the current credential reaches the threshold disables it and moves the
\* current id to an enabled credential (to none when there is none); and
\* get_all_credentials reports the current id and marks exactly its item.
C28_PriorityRotation ==
    [][/\ (lb_mode = "priority" /\ current_id' # current_id /\ current_id' # 0) =>
              LowestEnabled(entries', current_id')
       /\ \A id \in PoolIds :
              (/\ failure_count # <<>>
               /\ id = current_id
               /\ failure_count[id] < FailureThreshold
               /\ failure_count'[id] = FailureThreshold) =>
                  /\ EntryOf(entries', id).disabled
                  /\ current_id' # id
                  /\ IF EnabledIn(entries') = {} THEN current_id' = 0
                     ELSE current_id' \in EntryIds(EnabledIn(entries'))
       /\ IsSome(listing') => ListsCurrent(Unwrap(listing'), current_id')]_vars

\* in priority mode the first credential failed up to the threshold, the
\* second one became current and the listing says so
C28_Witness ==
    /\ lb_mode = "priority"
    /\ failure_count = [id \in PoolIds |-> IF id = 1 THEN FailureThreshold ELSE 0]
    /\ \A e \in entries : e.disabled <=> e.id = 1
    /\ First(entries).id = 1
    /\ current_id = 2
    /\ IsSome(listing)
    /\ Unwrap(listing).current_id = 2
    /\ \E i \in 1..PoolSize : /\ Unwrap(listing).credentials[i].id = 2
                              /\ Unwrap(listing).credentials[i].is_current

\* the place of an enabled credential in the ring ordered by priority, then
\* id
RingPlace(es, e) ==
    1 + Cardinality({o \in EnabledIn(es) :
                        o.priority < e.priority
                            \/ (o.priority = e.priority /\ o.id < e.id)})

\* the id that follows id in the ring, wrapping
RingNext(es, id) ==
    LET n == Cardinality(EnabledIn(es))
        e == CHOOSE x \in EnabledIn(es) : x.id = id
        f == CHOOSE x \in EnabledIn(es) : RingPlace(es, x) = (RingPlace(es, e) % n) + 1
    IN  f.id

\* C29: in balanced mode every switch_to_next selects an enabled credential,
\* the one that follows the current one in the ring of the enabled
\* credentials ordered by priority, then id, wrapping; in a pool of enabled
\* credentials 1, 2, 3 of equal priority with 1 current the calls select
\* 2, 3, 1, 2.
C29_BalancedRing ==
    (lb_mode = "balanced" /\ selections # <<>>) =>
        /\ \A k \in 2..Len(selections) :
               /\ selections[k] \in EntryIds(EnabledIn(entries))
               /\ selections[k - 1] \in EntryIds(EnabledIn(entries)) =>
                      selections[k] = RingNext(entries, selections[k - 1])
        /\ (/\ \A e, o \in entries : ~e.disabled /\ e.priority = o.priority
            /\ selections[1] = 1) =>
               \A k \in 1..Len(selections) : selections[k] = ((k - 1) % PoolSize) + 1

\* the ring of three was gone round once and on to the second credential
C29_Witness ==
    /\ lb_mode = "balanced"
    /\ \A e, o \in entries : ~e.disabled /\ e.priority = o.priority
    /\ Len(selections) = MaxSwitches + 1
    /\ selections[1] = 1
    /\ selections[PoolSize + 1] = 1
    /\ selections[MaxSwitches + 1] = ((MaxSwitches) % PoolSize) + 1

\* ------------------------------------------------------------------------
\* Properties of the balance cache mutex
\* ------------------------------------------------------------------------
\* C30: a caller holds the balance cache mutex only at the lookup and at the
\* upsert: not while its upstream probe is in flight, and not while the
\* cache file is written.
C30_MutexOnlyInMemory ==
    \A c \in DOMAIN gb_pc :
        cache_mutex = Some(c) => gb_pc[c] \in {"lookup", "insert"}

\* ------------------------------------------------------------------------
\* Properties of the balance cache under disk errors
\* ------------------------------------------------------------------------
\* the caller c returns from the upstream probe of its get_balance
ProbeReturns(c) ==
    /\ call # <<>>
    /\ call[c].pc = "fetch"
    /\ call'[c].pc = "idle"
    /\ restarts' = restarts

\* C32: a get_balance that fetched a balance returns it and has it in the
\* in-memory cache, whatever became of the cache file, and the only errors
\* it returns are those of the upstream probe; a service constructed over a
\* missing, unreadable or malformed cache file starts with an empty cache.
C32_DiskErrorsAreIgnored ==
    /\ [][\A c \in CacheCallers :
             ProbeReturns(c) =>
                 /\ IsSome(last')
                 /\ Unwrap(last').id = call[c].id
                 /\ IF Unwrap(last').res.ok
                    THEN /\ IsSome(balance_cache'[call[c].id])
                         /\ Unwrap(balance_cache'[call[c].id]).data = Unwrap(last').res.val
                    ELSE Unwrap(last').res.err \in {E_Usage, E_NotFound}]_vars
    /\ [][(restarts' = restarts + 1 /\ cache_file.state # "json") =>
             balance_cache' = EmptyCache]_vars
    /\ []((restarts = 0 /\ cache_file.state # "json"
               /\ stored = [id \in Ids |-> None]) =>
             balance_cache = EmptyCache)

\* a write of the cache file failed half way, get_balance returned the
\* balance all the same, and the service restarted over that file with an
\* empty cache
C32_Witness ==
    /\ restarts = 1
    /\ cache_file.state = "malformed"
    /\ \E k \in FileKeys : IsSome(cache_file.map[k])
    /\ balance_cache = EmptyCache
    /\ last = None

\* ------------------------------------------------------------------------
\* Properties of the cache file under concurrent get_balance calls
\* ------------------------------------------------------------------------
\* the callers that are writing the cache file
Writing == {c \in DOMAIN gb_pc : gb_pc[c] = "write"}

\* C31: at most one call writes the cache file at a time; a call writes
\* the file after its upsert, the map it writes holding an entry for its id;
\* and when every call has completed, with a cache path and no write
\* having failed, the file holds exactly the in-memory map.
C31_FileFollowsMemory ==
    /\ Cardinality(Writing) <= 1
    /\ \A c \in Writing : gb_snap[c][gb_id[c]] # 0 /\ gb_snap[c] = mem_cache
    /\ ((\A c \in DOMAIN gb_pc : gb_pc[c] = "idle") /\ path_set /\ ~write_failed) =>
           disk_cache = mem_cache

\* all calls have completed, both ids were upserted, one of them twice, and
\* the file holds the latest balances
C31_Witness ==
    /\ gb_pc # <<>>
    /\ \A c \in DOMAIN gb_pc : gb_pc[c] = "idle"
    /\ path_set /\ ~write_failed
    /\ fetches = MaxFetches
    /\ \A id \in LockIds : mem_cache[id] # 0
    /\ disk_cache = mem_cache

\* ------------------------------------------------------------------------
\* Properties of decode() and feed()
\* ------------------------------------------------------------------------
\* C33: a decode() that returns Ok(None) leaves the buffer, frames_decoded
\* and the error counter as they were; what is left is either nothing or
\* the beginning of a frame, to be parsed again when more is fed.
C33_NoneConsumesNothing ==
    [][((Decode \/ IterNext) /\ yielded' = "none") =>
          /\ buffer' = buffer
          /\ frames_decoded' = frames_decoded
          /\ error_count' = error_count
          /\ (buffer = <<>> \/ FrameParser_parse(buffer).kind = "none")]_vars

\* after garbage the beginning of a frame was fed and decode() returned
\* Ok(None) with it still in the buffer
C33_Witness ==
    /\ yielded = "none"
    /\ buffer # <<>>
    /\ Len(buffer) < FrameLen
    /\ error_count > 0
    /\ frames_decoded = 0

\* C34: a decode() that returns a frame takes exactly the frame's bytes off
\* the front of the buffer, adds one to frames_decoded, resets the error
\* counter and leaves the state AwaitingData; feed() appends the fed bytes
\* to the buffer, leaves the counters alone and turns Recovering into
\* AwaitingData.
C34_FrameAndFeedEffects ==
    /\ [][((Decode \/ IterNext) /\ yielded' = "frame") =>
             /\ Len(buffer) >= FrameLen
             /\ buffer' = SubSeq(buffer, FrameLen + 1, Len(buffer))
             /\ frames_decoded' = frames_decoded + 1
             /\ error_count' = 0
             /\ state' = "AwaitingData"]_vars
    /\ [][fed' # fed =>
             /\ buffer' = buffer \o SubSeq(input, fed + 1, fed')
             /\ frames_decoded' = frames_decoded
             /\ error_count' = error_count
             /\ state' = IF state = "Recovering" THEN "AwaitingData" ELSE state]_vars

\* a frame was decoded after errors, with a byte behind it left in the
\* buffer
C34_Witness ==
    /\ yielded = "frame"
    /\ frames_decoded = 1
    /\ errors_yielded > 0
    /\ error_count = 0
    /\ state = "AwaitingData"
    /\ buffer = <<"garbage">>

\* C38: the error counter never exceeds max_errors.
C38_ErrorCountIsBounded == error_count <= max_errors

\* ------------------------------------------------------------------------
\* Properties of a decode_iter pass
\* ------------------------------------------------------------------------
\* the iterator returned None
PassEnded == yielded \in {"none", "stopped"}

\* C36: a decode_iter pass ends: the iterator returns None after a number
\* of items that the bytes in the buffer bound (a frame for every FrameLen
\* bytes at most, and one error).
C36_PassTerminates ==
    /\ <>PassEnded
    /\ [](frames_decoded + errors_yielded <= (Len(input) \div FrameLen) + 1)

\* a pass yielded a frame, then an error, and ended
C36_Witness ==
    /\ yielded = "stopped"
    /\ frames_decoded = 1
    /\ errors_yielded = 1
    /\ fed = Len(input)

\* ------------------------------------------------------------------------
\* Properties of the status counters
\* ------------------------------------------------------------------------
\* C35: connected is true exactly when a refresh has succeeded, and no
\* later failure or kicked event sets it back to false.
C35_ConnectedIffSucceeded ==
    /\ [](status.connected <=> status.refresh_success_count > 0)
    /\ [][status.connected => status'.connected]_vars

\* a refresh succeeded, a later one found the device kicked and failed
C35_Witness ==
    /\ status.connected
    /\ status.refresh_success_count > 0
    /\ status.refresh_failure_count > 0
    /\ status.kicked
    /\ ~status.last_refresh_ok

\* the refresh attempts whose result is recorded: the do_refresh calls that
\* have returned, and the one that has injected its credential and awaits
\* the pre-warm probe before it returns
CompletedAttempts == iterations + (IF pc = "usage" THEN 1 ELSE 0)

\* C37: each iteration adds one to exactly one of refresh_success_count and
\* refresh_failure_count, so that their sum is the number of completed refresh
\* attempts; the pre-warm usage probe and the heartbeat, failed or not,
\* change neither counter.
C37_OneCountPerIteration ==
    /\ [](Attempts = CompletedAttempts)
    /\ [][LET ds == status'.refresh_success_count - status.refresh_success_count
              df == status'.refresh_failure_count - status.refresh_failure_count
          IN  /\ <<ds, df>> \in {<<0, 0>>, <<1, 0>>, <<0, 1>>}
              /\ iterations' = iterations + 1 =>
                     Attempts' = iterations'
              /\ pc \in {"usage", "hb"} => ds = 0 /\ df = 0]_vars

\* two iterations are over, one failed and the later one succeeded; the
\* heartbeat after it failed and was not counted
C37_Witness ==
    /\ pc = "wait"
    /\ iterations = 2
    /\ status.refresh_success_count = 1
    /\ status.refresh_failure_count = 1
    /\ status.last_refresh_ok
    /\ IsSome(hb_res)
    /\ ~Unwrap(hb_res).ok

\* ------------------------------------------------------------------------
\* Properties of a get_balance call whose probe fails
\* ------------------------------------------------------------------------
\* the entry of id is older than the TTL
ExpiredEntry(id) ==
    /\ IsSome(balance_cache[id])
    /\ ~is_fresh(Unwrap(balance_cache[id]), timestamp(clock))

\* C39: a get_balance(id) whose upstream probe fails returns the probe's
\* error, classified, and leaves the cache map and the cache file as they
\* were; an expired entry of id stays in the map and the next get_balance(id)
\* probes upstream again instead of serving it.
C39_FailedProbeChangesNothing ==
    /\ [][\A c \in Callers, ures \in UsageResults :
             (FetchReturn(c, ures) /\ ~ures.ok) =>
                 /\ balance_cache' = balance_cache
                 /\ cache_file' = cache_file
                 /\ IsSome(last')
                 /\ Unwrap(last').id = call[c].id
                 /\ ~Unwrap(last').hit
                 /\ ~Unwrap(last').res.ok
                 /\ Unwrap(last').res.err = ures.err]_vars
    /\ [][\A c \in Callers, id \in Ids :
             (GetBalance(c, id) /\ ExpiredEntry(id)) =>
                 /\ call'[c] = [pc |-> "fetch", id |-> id]
                 /\ last' = last]_vars

\* the probe of a get_balance(id) failed while the map and the file held
\* an expired entry of id, which is still there
C39_Witness ==
    /\ IsSome(last)
    /\ ~Unwrap(last).res.ok
    /\ ~Unwrap(last).hit
    /\ ExpiredEntry(Unwrap(last).id)
    /\ IsSome(cache_path)
    /\ cache_file.state = "json"
    /\ cache_file.map[to_string(Unwrap(last).id)] = balance_cache[Unwrap(last).id]
    /\ \A c \in Callers : call[c].pc = "idle"

\* ------------------------------------------------------------------------
\* Properties of set_disabled under concurrent rotations
\* ------------------------------------------------------------------------
\* the manager disables the credential of thread a's set_disabled(id, true)
\* in this step
DisablesNow(a) ==
    /\ acall[a].pc = "set"
    /\ acall[a].disabled
    /\ acall'[a] # acall[a]
    /\ set_disabled(entries, acall[a].id, TRUE).res.ok

\* C40: whatever happens between the snapshot read and the disable,
\* set_disabled(id, true) goes on to switch_to_next exactly when id is the
\* current credential at the moment the manager disables it.
C40_SwitchIffCurrentAtDisable ==
    [][\A a \in AdminThreads :
          DisablesNow(a) =>
              (acall'[a].pc = "switch" <=> current_id = acall[a].id)]_vars

====
